---- MODULE Spec2Model ----
(***************************************************************************)
(* Recommendation engine of the movies / products / books backend:         *)
(* the ratings store (create_rating and its unique index), the similarity  *)
(* functions, the collaborative, content-based and hybrid recommenders,    *)
(* the popularity / trending rankers and the endpoints' fallback.          *)
(*                                                                         *)
(* Python floats are modelled by exact numbers.  A rational is a reduced   *)
(* pair <<n, d>> with d > 0.  A value that involves square roots (Pearson, *)
(* cosine and everything computed from them) is a "surd": a function from  *)
(* square-free radicands to non-zero rational coefficients, the value      *)
(* being the sum of coef * sqrt(radicand).  Equality of surds is equality  *)
(* of exact values; IEEE rounding is not modelled.                         *)
(***************************************************************************)
EXTENDS Integers, Sequences, FiniteSets, TLC

VARIABLES users, items, ratings, next_id, now, reqs, res

vars == <<users, items, ratings, next_id, now, reqs, res>>

-----------------------------------------------------------------------------
(* Exact arithmetic                                                         *)

Abs(x) == IF x < 0 THEN -x ELSE x

RECURSIVE GCD(_, _)
GCD(a, b) == IF b = 0 THEN a ELSE GCD(b, a % b)

Rat(n, d) ==
    LET g == GCD(Abs(n), Abs(d))
        s == IF d < 0 THEN -1 ELSE 1
    IN  <<(s * n) \div g, (s * d) \div g>>

RatInt(k) == <<k, 1>>
RatZero == <<0, 1>>
RatOne == <<1, 1>>
RatAdd(x, y) ==
    LET g == GCD(x[2], y[2])
    IN  Rat(x[1] * (y[2] \div g) + y[1] * (x[2] \div g), (x[2] \div g) * y[2])
RatNeg(x) == <<-x[1], x[2]>>
RatSub(x, y) == RatAdd(x, RatNeg(y))
RatMul(x, y) ==
    LET g1 == GCD(Abs(x[1]), y[2])
        g2 == GCD(Abs(y[1]), x[2])
    IN  Rat((x[1] \div g1) * (y[1] \div g2), (x[2] \div g2) * (y[2] \div g1))
RatInv(x) == Rat(x[2], x[1])
RatDiv(x, y) == RatMul(x, RatInv(y))
RatSign(x) == IF x[1] > 0 THEN 1 ELSE IF x[1] < 0 THEN -1 ELSE 0
RatLess(x, y) == RatSign(RatSub(x, y)) < 0
RatLeq(x, y) == RatSign(RatSub(x, y)) <= 0
RatAbs(q) == IF q[1] < 0 THEN RatNeg(q) ELSE q

(* n = s * s * f with f square-free: <<s, f>> *)
RECURSIVE SqFree(_, _)
SqFree(n, k) ==
    IF k * k > n THEN <<1, n>>
    ELSE IF n % (k * k) = 0
         THEN LET r == SqFree(n \div (k * k), k) IN <<k * r[1], r[2]>>
         ELSE SqFree(n, k + 1)

SurdZero == [f \in {} |-> RatZero]
SurdTerm(c, f) == IF c[1] = 0 THEN SurdZero ELSE [g \in {f} |-> c]
SurdOf(q) == SurdTerm(q, 1)
SurdCoef(x, f) == IF f \in DOMAIN x THEN x[f] ELSE RatZero
SurdAdd(x, y) ==
    LET all == (DOMAIN x) \cup (DOMAIN y)
        keep == {f \in all : RatAdd(SurdCoef(x, f), SurdCoef(y, f))[1] # 0}
    IN  [f \in keep |-> RatAdd(SurdCoef(x, f), SurdCoef(y, f))]
SurdScale(q, x) == IF q[1] = 0 THEN SurdZero ELSE [f \in DOMAIN x |-> RatMul(q, x[f])]
SurdNeg(x) == [f \in DOMAIN x |-> RatNeg(x[f])]
SurdSub(x, y) == SurdAdd(x, SurdNeg(y))

(* c*sqrt(f) * d*sqrt(g) = c*d*h * sqrt(f*g / h^2), h = gcd(f, g) *)
TermMul(c, f, d, g) ==
    LET h == GCD(f, g)
    IN  SurdTerm(RatMul(RatMul(c, d), RatInt(h)), (f \div h) * (g \div h))

(* sum of the surds t[e], e in S *)
RECURSIVE SurdSum(_, _)
SurdSum(t, S) ==
    IF S = {} THEN SurdZero
    ELSE LET e == CHOOSE e \in S : TRUE
         IN  SurdAdd(t[e], SurdSum(t, S \ {e}))

SurdMul(x, y) ==
    LET P == (DOMAIN x) \X (DOMAIN y)
    IN  SurdSum([p \in P |-> TermMul(x[p[1]], p[1], y[p[2]], p[2])], P)

(* sqrt of a non-negative rational p/q = (s_p / (s_q * f_q)) * sqrt(f_p * f_q) *)
SurdSqrt(q) ==
    IF q[1] = 0 THEN SurdZero
    ELSE LET a == SqFree(q[1], 2)
             b == SqFree(q[2], 2)
         IN  SurdTerm(Rat(a[1], b[1] * b[2]), a[2] * b[2])

RECURSIVE LcmDen(_, _)
LcmDen(x, S) ==
    IF S = {} THEN 1
    ELSE LET f == CHOOSE f \in S : TRUE
             l == LcmDen(x, S \ {f})
         IN  (l \div GCD(l, x[f][2])) * x[f][2]

RECURSIVE GcdNum(_, _)
GcdNum(x, S) ==
    IF S = {} THEN 0
    ELSE LET f == CHOOSE f \in S : TRUE
         IN  GCD(Abs(x[f][1]), GcdNum(x, S \ {f}))

(* x times a positive rational: integer coefficients without common factor *)
SurdPrimitive(x) ==
    LET l == LcmDen(x, DOMAIN x)
        y == [f \in DOMAIN x |-> <<x[f][1] * (l \div x[f][2]), 1>>]
        g == GcdNum(y, DOMAIN y)
    IN  [f \in DOMAIN y |-> <<y[f][1] \div g, 1>>]

(* sign of a surd with at most four terms, by isolating and squaring *)
RECURSIVE SurdSign(_)
SurdSign(x) ==
    LET n == Cardinality(DOMAIN x)
    IN  IF n = 0 THEN 0
        ELSE IF \A f \in DOMAIN x : x[f][1] > 0 THEN 1
        ELSE IF \A f \in DOMAIN x : x[f][1] < 0 THEN -1
        ELSE LET p == SurdPrimitive(x)
                 split == IF n <= 3 THEN 1 ELSE 2
                 D == CHOOSE D \in SUBSET (DOMAIN p) :
                          Cardinality(D) = split /\ n <= 4
                 L == [f \in D |-> p[f]]
                 R == [f \in (DOMAIN p) \ D |-> p[f]]
                 sl == SurdSign(L)
                 sr == SurdSign(R)
             IN  IF sl = sr THEN sl
                 ELSE IF SurdSign(SurdSub(SurdMul(L, L), SurdMul(R, R))) > 0
                      THEN sl ELSE sr

SurdLess(x, y) == SurdSign(SurdSub(x, y)) < 0
SurdLeq(x, y) == SurdSign(SurdSub(x, y)) <= 0

(* 1/x for a non-zero surd of one or two terms (conjugate over the norm) *)
SurdInv(x) ==
    LET n == Cardinality(DOMAIN x)
        f == CHOOSE f \in DOMAIN x : n \in {1, 2}
    IN  IF n = 1 THEN SurdTerm(RatInv(RatMul(x[f], RatInt(f))), f)
        ELSE LET g == CHOOSE g \in DOMAIN x : g # f
                 norm == RatSub(RatMul(RatMul(x[f], x[f]), RatInt(f)),
                                RatMul(RatMul(x[g], x[g]), RatInt(g)))
                 conj == [h \in {f, g} |-> IF h = f THEN x[f] ELSE RatNeg(x[g])]
             IN  SurdScale(RatInv(norm), conj)
SurdDiv(x, y) == SurdMul(x, SurdInv(y))

(* sum of the rationals t[e], e in S *)
RECURSIVE RatSum(_, _)
RatSum(t, S) ==
    IF S = {} THEN RatZero
    ELSE LET e == CHOOSE e \in S : TRUE
         IN  RatAdd(t[e], RatSum(t, S \ {e}))

-----------------------------------------------------------------------------
(* Sequences and Python dicts                                               *)

Range(s) == {s[i] : i \in DOMAIN s}
Take(s, n) == SubSeq(s, 1, IF n < Len(s) THEN n ELSE Len(s))

RECURSIVE Filter(_, _)
Filter(s, keep) ==
    IF s = <<>> THEN <<>>
    ELSE IF Head(s) \in keep THEN <<Head(s)>> \o Filter(Tail(s), keep)
         ELSE Filter(Tail(s), keep)

(* the distinct elements of s in order of first appearance: the key order  *)
(* of a dict filled while iterating s                                      *)
RECURSIVE Distinct(_)
Distinct(s) ==
    IF s = <<>> THEN <<>>
    ELSE LET d == Distinct(SubSeq(s, 1, Len(s) - 1))
         IN  IF s[Len(s)] \in Range(d) THEN d ELSE Append(d, s[Len(s)])

(* list.sort(key=..., reverse=True): stable, descending by the surd key[e] *)
RECURSIVE InsertDesc(_, _, _)
InsertDesc(sorted, e, key) ==
    IF sorted = <<>> THEN <<e>>
    ELSE LET last == sorted[Len(sorted)]
         IN  IF SurdLess(key[last], key[e])
             THEN Append(InsertDesc(SubSeq(sorted, 1, Len(sorted) - 1), e, key), last)
             ELSE Append(sorted, e)

RECURSIVE SortDesc(_, _)
SortDesc(s, key) ==
    IF s = <<>> THEN <<>>
    ELSE InsertDesc(SortDesc(SubSeq(s, 1, Len(s) - 1), key), s[Len(s)], key)

(* max(...) of the surds key[e], e in the non-empty set S *)
SurdMax(key, S) == key[CHOOSE e \in S : \A o \in S : SurdLeq(key[o], key[e])]

-----------------------------------------------------------------------------
(* Identifiers.  An ObjectId and its 24-hex string are different values:    *)
(* <<"oid", k>> and <<"str", k>>; <<"str", 0>> is a string that is no hex    *)
(* form of an ObjectId.                                                     *)

Oid(k) == <<"oid", k>>
Str(k) == <<"str", k>>
str(oid) == <<"str", oid[2]>>
ObjectId(s) == <<"oid", s[2]>>
is_valid(s) == s[1] = "str" /\ s[2] # 0

-----------------------------------------------------------------------------
(* The catalogue: the documents create_item stores, by item number          *)

NoMeta == [director |-> "", cast |-> <<>>, brand |-> "", author |-> "", publisher |-> ""]

Catalogue ==
    <<[_id |-> Oid(1), item_type |-> "movie", genres |-> <<"action">>, tags |-> <<>>,
       category |-> "", metadata |-> NoMeta],
      [_id |-> Oid(2), item_type |-> "movie", genres |-> <<"action">>, tags |-> <<>>,
       category |-> "", metadata |-> NoMeta],
      [_id |-> Oid(3), item_type |-> "book", genres |-> <<"action">>, tags |-> <<>>,
       category |-> "", metadata |-> NoMeta],
      [_id |-> Oid(4), item_type |-> "movie", genres |-> <<"drama">>, tags |-> <<>>,
       category |-> "",
       metadata |-> [NoMeta EXCEPT !.director = "d1"]],
      [_id |-> Oid(5), item_type |-> "product", genres |-> <<>>, tags |-> <<"gadget">>,
       category |-> "audio",
       metadata |-> [NoMeta EXCEPT !.brand = "b1"]],
      [_id |-> Oid(6), item_type |-> "movie", genres |-> <<"action">>, tags |-> <<"classic">>,
       category |-> "",
       metadata |-> [NoMeta EXCEPT !.cast = <<"a1", "a2", "a3", "a4", "a5", "a6">>]],
      [_id |-> Oid(7), item_type |-> "book", genres |-> <<"drama">>, tags |-> <<>>,
       category |-> "",
       metadata |-> [NoMeta EXCEPT !.author = "w1", !.publisher = "p1"]]>>

ItemNums == DOMAIN Catalogue

(* db.items.find({}) in natural order; db.items.find_one({"_id": oid}) *)
items_find_all(its) == [i \in DOMAIN its |-> Catalogue[its[i]]]
None == [none |-> TRUE]
items_find_one(its, oid) ==
    IF oid[1] = "oid" /\ oid[2] \in Range(its) THEN Catalogue[oid[2]] ELSE None

(* db.ratings.find({"user_id": user_id}) in natural order *)
RECURSIVE ratings_find_user(_, _)
ratings_find_user(rs, user_id) ==
    IF rs = <<>> THEN <<>>
    ELSE IF Head(rs).user_id = user_id
         THEN <<Head(rs)>> \o ratings_find_user(Tail(rs), user_id)
         ELSE ratings_find_user(Tail(rs), user_id)

-----------------------------------------------------------------------------
(* collaborative_filtering.py                                               *)

(* a dict {item_id: rating} built by a comprehension over docs: the keys in *)
(* order of first appearance, the value of the last doc with that key       *)
RatingsDict(docs) ==
    LET ks == Distinct([i \in DOMAIN docs |-> docs[i].item_id])
    IN  [keys |-> ks,
         val |-> [k \in Range(ks) |->
                     docs[CHOOSE i \in DOMAIN docs :
                             /\ docs[i].item_id = k
                             /\ \A j \in DOMAIN docs : docs[j].item_id = k => j <= i].rating]]

get_user_ratings_dict(rs, user_id) == RatingsDict(ratings_find_user(rs, user_id))

(* {user_id: {item_id: rating}}, users in order of first appearance *)
get_all_users_ratings(rs) ==
    LET us == Distinct([i \in DOMAIN rs |-> rs[i].user_id])
    IN  [keys |-> us,
         val |-> [u \in Range(us) |-> get_user_ratings_dict(rs, u)]]

too_few_common_below_three(n) == n < 3

(* line 62: len(common_items) < 2 *)
too_few_common(n) == n < 2

no_overlap_is_perfect == SurdOf(RatOne)

(* line 63: return 0.0 *)
no_overlap_result == SurdZero

(* x / y of two Python floats raises ZeroDivisionError for y == 0; the      *)
(* exception is written as the value 1/0                                   *)
ZeroDivisionError == [f \in {0} |-> <<1, 0>>]
true_div(x, y) == IF y = SurdZero THEN ZeroDivisionError ELSE SurdDiv(x, y)

zero_guard_missing(x) == FALSE

(* collaborative_filtering.py line 78: if denominator == 0; content_based.py *)
(* line 62: if magnitude1 == 0 or magnitude2 == 0                            *)
is_zero(x) == x = SurdZero

pearson_correlation(ratings1, ratings2) ==
    LET common_items == (DOMAIN ratings1) \cap (DOMAIN ratings2)
        n == Cardinality(common_items)
        mean1 == Rat(RatSum([i \in common_items |-> RatInt(ratings1[i])], common_items)[1], n)
        mean2 == Rat(RatSum([i \in common_items |-> RatInt(ratings2[i])], common_items)[1], n)
        d1 == [i \in common_items |-> RatSub(RatInt(ratings1[i]), mean1)]
        d2 == [i \in common_items |-> RatSub(RatInt(ratings2[i]), mean2)]
        numerator == RatSum([i \in common_items |-> RatMul(d1[i], d2[i])], common_items)
        sum_sq_diff1 == RatSum([i \in common_items |-> RatMul(d1[i], d1[i])], common_items)
        sum_sq_diff2 == RatSum([i \in common_items |-> RatMul(d2[i], d2[i])], common_items)
        denominator == SurdSqrt(RatMul(sum_sq_diff1, sum_sq_diff2))
    IN  IF too_few_common(n) THEN no_overlap_result
        ELSE IF is_zero(denominator) THEN SurdZero
        ELSE true_div(SurdOf(numerator), denominator)


(* min_common_items and top_n of the call find_similar_users makes inside   *)
(* generate_collaborative_recommendations, and find_similar_users' defaults *)
CollabMinCommon == 3
CollabTopN == 50
DefaultMinCommon == 3
DefaultTopN == 10

enough_common_unchecked(common_items, min_common_items) == TRUE

(* lines 104-105: users with len(common_items) < min_common_items are skipped *)
enough_common(common_items, min_common_items) ==
    Cardinality(common_items) >= min_common_items

(* lines 93-114, on the dicts read at lines 91 and 96: a list of            *)
(* (other_user_id, similarity) pairs                                        *)
rank_similar_users(user_ratings, all_users_ratings, user_id, min_common_items, top_n) ==
    LET common_items(o) == (DOMAIN user_ratings.val) \cap (DOMAIN all_users_ratings.val[o].val)
        similarities(sim) ==
            Filter(all_users_ratings.keys,
                   {o \in Range(all_users_ratings.keys) :
                       /\ o # user_id
                       /\ enough_common(common_items(o), min_common_items)
                       /\ SurdSign(sim[o]) > 0})
        pairs(sorted, sim) == [i \in DOMAIN sorted |-> <<sorted[i], sim[sorted[i]]>>]
        ranked(sim) == pairs(SortDesc(similarities(sim), sim), sim)
    IN  IF Len(user_ratings.keys) = 0 THEN <<>>
        ELSE Take(ranked([o \in Range(all_users_ratings.keys) |->
                             pearson_correlation(user_ratings.val,
                                                 all_users_ratings.val[o].val)]),
                  top_n)

find_similar_users(rs, user_id, min_common_items, top_n) ==
    rank_similar_users(get_user_ratings_dict(rs, user_id), get_all_users_ratings(rs),
                       user_id, min_common_items, top_n)

(* the keys of the neighbours' rating dicts, neighbour after neighbour *)
RECURSIVE NeighbourItems(_, _)
NeighbourItems(neighbours, neighbour_ratings) ==
    IF neighbours = <<>> THEN <<>>
    ELSE neighbour_ratings[Head(neighbours)[1]].keys
             \o NeighbourItems(Tail(neighbours), neighbour_ratings)

unrated_unchecked(touched, user_rated_items) == touched

(* line 142: only an item_id not in user_rated_items is scored *)
unrated(touched, user_rated_items) == Filter(touched, Range(touched) \ user_rated_items)

not_averaged(score, count) == score

(* line 149: avg_score = data["score"] / data["count"] *)
avg_score(score, count) == SurdScale(Rat(1, count), score)

(* lines 133-156: the accumulation over the similar users and the sort.    *)
(* neighbour_ratings[n] is what get_user_ratings_dict returns for n at     *)
(* line 139                                                                *)
collaborative_scores(user_rated_items, similar_users, neighbour_ratings, min_similarity) ==
    LET used_idx == {j \in DOMAIN similar_users :
                        ~ SurdLess(similar_users[j][2], SurdOf(min_similarity))}
        item_scores(used, cand) ==
            LET contrib(k) == {j \in DOMAIN used :
                                  k \in DOMAIN neighbour_ratings[used[j][1]].val}
                score(k) == SurdSum([j \in contrib(k) |->
                                        SurdScale(RatInt(neighbour_ratings[used[j][1]].val[k]),
                                                  used[j][2])], contrib(k))
            IN  [i \in DOMAIN cand |->
                    [item_id |-> cand[i],
                     score |-> avg_score(score(cand[i]), Cardinality(contrib(cand[i]))),
                     similarity_count |-> Cardinality(contrib(cand[i]))]]
        accumulate(used) ==
            item_scores(used, unrated(Distinct(NeighbourItems(used, neighbour_ratings)),
                                      user_rated_items))
        in_order(recs, order) == [i \in DOMAIN order |-> recs[order[i]]]
        sort(recs) == in_order(recs, SortDesc([i \in DOMAIN recs |-> i],
                                              [i \in DOMAIN recs |-> recs[i].score]))
    IN  sort(accumulate(Filter(similar_users, {similar_users[j] : j \in used_idx})))

(* lines 158-167: look the top `limit` candidates up in db.items *)
RECURSIVE collaborative_result(_, _)
collaborative_result(recs, its) ==
    IF recs = <<>> THEN <<>>
    ELSE LET item == items_find_one(its, ObjectId(Head(recs).item_id))
         IN  (IF item = None THEN <<>>
              ELSE <<[_id |-> item._id, id |-> str(item._id),
                      recommendation_score |-> Head(recs).score,
                      recommendation_type |-> "collaborative"]>>)
             \o collaborative_result(Tail(recs), its)

top_candidates_unbounded(recommendations, limit) == recommendations

(* line 159: recommendations[:limit] *)
top_candidates(recommendations, limit) == Take(recommendations, limit)

generate_collaborative_recommendations(rs, its, user_id, limit, min_similarity) ==
    LET user_ratings == get_user_ratings_dict(rs, user_id)
        user_rated_items == Range(user_ratings.keys)
        neighbour_ratings(similar_users) ==
            [n \in {similar_users[j][1] : j \in DOMAIN similar_users} |->
                get_user_ratings_dict(rs, n)]
        recommend(similar_users) ==
            IF Len(similar_users) = 0 THEN <<>>
            ELSE collaborative_result(
                     top_candidates(
                         collaborative_scores(user_rated_items, similar_users,
                                              neighbour_ratings(similar_users),
                                              min_similarity),
                         limit),
                     its)
    IN  recommend(find_similar_users(rs, user_id, CollabMinCommon, CollabTopN))


-----------------------------------------------------------------------------
(* content_based.py.  A feature key f"genre:{g}" is the pair <<"genre", g>>. *)

Half == Rat(1, 2)
ContentMinRating == RatInt(3)

Opt(present, key) == IF present THEN {key} ELSE {}

type_feature_missing(item) == {}

(* line 18: features[f"type:{item_type}"] = 1.0 *)
type_feature(item) == {<<"type", item.item_type>>}

extract_item_features(item) ==
    LET metadata == item.metadata
        movie == item.item_type = "movie"
        product == item.item_type = "product"
        book == item.item_type = "book"
        one == {<<"genre", g>> : g \in Range(item.genres)}
                 \cup {<<"tag", t>> : t \in Range(item.tags)}
                 \cup type_feature(item)
                 \cup Opt(movie /\ metadata.director # "", <<"director", metadata.director>>)
                 \cup Opt(product /\ metadata.brand # "", <<"brand", metadata.brand>>)
                 \cup Opt(product /\ item.category # "", <<"category", item.category>>)
                 \cup Opt(book /\ metadata.author # "", <<"author", metadata.author>>)
        half == {<<"actor", a>> : a \in (IF movie THEN Range(Take(metadata.cast, 5)) ELSE {})}
                  \cup Opt(book /\ metadata.publisher # "", <<"publisher", metadata.publisher>>)
    IN  [f \in one \cup half |-> IF f \in half THEN Half ELSE RatOne]

FeatureGet(features, f) == IF f \in DOMAIN features THEN features[f] ELSE RatZero

cosine_not_normalised(features1, features2) ==
    LET all_features == (DOMAIN features1) \cup (DOMAIN features2)
    IN  SurdOf(RatSum([f \in all_features |->
                          RatMul(FeatureGet(features1, f), FeatureGet(features2, f))],
                      all_features))

cosine_similarity_features(features1, features2) ==
    LET all_features == (DOMAIN features1) \cup (DOMAIN features2)
        dot_product == RatSum([f \in all_features |->
                                  RatMul(FeatureGet(features1, f), FeatureGet(features2, f))],
                              all_features)
        sq(features) == RatSum([f \in all_features |->
                                   RatMul(FeatureGet(features, f), FeatureGet(features, f))],
                               all_features)
        magnitude1 == SurdSqrt(sq(features1))
        magnitude2 == SurdSqrt(sq(features2))
    IN  IF all_features = {} THEN SurdZero
        ELSE IF is_zero(magnitude1) \/ is_zero(magnitude2) THEN SurdZero
        ELSE true_div(SurdOf(dot_product), SurdMul(magnitude1, magnitude2))

EmptyFeatures == [f \in {} |-> RatZero]

rated_enough_unchecked(rating, min_rating) == TRUE

(* lines 94-98, 107-108: only ratings with rating >= min_rating count *)
rated_enough(rating, min_rating) == RatLeq(min_rating, RatInt(rating))

get_user_preferred_features(rs, its, user_id, min_rating) ==
    LET user_docs == ratings_find_user(rs, user_id)
        liked == {i \in DOMAIN user_docs : rated_enough(user_docs[i].rating, min_rating)}
        found(i) == items_find_one(its, ObjectId(user_docs[i].item_id))
        counted == {i \in liked : found(i) # None}
        accumulate(item_features) ==
            LET keys == UNION {DOMAIN item_features[i] : i \in counted}
                with(f) == {i \in counted : f \in DOMAIN item_features[i]}
            IN  [f \in keys |->
                    RatSum([i \in with(f) |->
                               RatMul(item_features[i][f], Rat(user_docs[i].rating, 5))],
                           with(f))]
        scaled(feature_weights, max_weight) ==
            IF RatSign(max_weight) > 0
            THEN [f \in DOMAIN feature_weights |-> RatDiv(feature_weights[f], max_weight)]
            ELSE feature_weights
        normalised(feature_weights) ==
            IF DOMAIN feature_weights = {} THEN EmptyFeatures
            ELSE scaled(feature_weights,
                        feature_weights[CHOOSE f \in DOMAIN feature_weights :
                                           \A g \in DOMAIN feature_weights :
                                               RatLeq(feature_weights[g], feature_weights[f])])
    IN  IF Len(user_docs) = 0 THEN EmptyFeatures
        ELSE IF liked = {} THEN EmptyFeatures
        ELSE normalised(accumulate([i \in counted |-> extract_item_features(found(i))]))

similar_enough_unchecked(similarity, min_similarity) == TRUE

(* lines 160, 206: if similarity >= min_similarity *)
similar_enough(similarity, min_similarity) == SurdLeq(SurdOf(min_similarity), similarity)

generate_content_based_recommendations(rs, its, user_id, limit, min_similarity) ==
    LET user_docs == ratings_find_user(rs, user_id)
        user_rated_item_ids == {ObjectId(user_docs[i].item_id) : i \in DOMAIN user_docs}
        all_items == items_find_all(its)
        kept(similarity) ==
            {i \in DOMAIN all_items :
                /\ all_items[i]._id \notin user_rated_item_ids
                /\ similar_enough(similarity[i], min_similarity)}
        similarities(similarity) ==
            SortDesc(Filter([i \in DOMAIN all_items |-> i], kept(similarity)), similarity)
        result(top, similarity) ==
            [j \in DOMAIN top |->
                [_id |-> all_items[top[j]]._id, id |-> str(all_items[top[j]]._id),
                 recommendation_score |-> similarity[top[j]],
                 recommendation_type |-> "content_based"]]
        rank(similarity) == result(Take(similarities(similarity), limit), similarity)
        recommend(user_features) ==
            IF user_features = EmptyFeatures THEN <<>>
            ELSE rank([i \in DOMAIN all_items |->
                          cosine_similarity_features(user_features,
                                                     extract_item_features(all_items[i]))])
    IN  recommend(get_user_preferred_features(rs, its, user_id, ContentMinRating))


(* lines 130-173; db.items.find({"item_type": ..., "_id": {"$ne": ...}}) in *)
(* natural order                                                            *)
find_similar_items(its, item_id, limit, min_similarity) ==
    LET item == items_find_one(its, ObjectId(item_id))
        stored == items_find_all(its)
        all_items == Filter(stored,
                            {o \in Range(stored) :
                                o.item_type = item.item_type /\ o._id # ObjectId(item_id)})
        kept(similarity) ==
            {i \in DOMAIN all_items : similar_enough(similarity[i], min_similarity)}
        similarities(similarity) ==
            SortDesc(Filter([i \in DOMAIN all_items |-> i], kept(similarity)), similarity)
        result(top, similarity) ==
            [j \in DOMAIN top |->
                [_id |-> all_items[top[j]]._id, id |-> str(all_items[top[j]]._id),
                 similarity_score |-> similarity[top[j]],
                 recommendation_score |-> similarity[top[j]],
                 recommendation_type |-> "content_based"]]
        rank(similarity) == result(Take(similarities(similarity), limit), similarity)
    IN  IF ~ is_valid(item_id) THEN <<>>
        ELSE IF item = None THEN <<>>
        ELSE rank([i \in DOMAIN all_items |->
                      cosine_similarity_features(extract_item_features(item),
                                                 extract_item_features(all_items[i]))])

-----------------------------------------------------------------------------
(* recommendation_service.py                                                *)

NoAgreementBoost == RatOne
(* line 77: hybrid_score *= 1.2 *)
AgreementBoost == Rat(12, 10)

(* rec.get("normalized_score", 0) *)
normalized_score(rec) ==
    IF "normalized_score" \in DOMAIN rec THEN rec.normalized_score ELSE SurdZero

normalize_scores_skipped(recommendations) == recommendations

(* lines 26-37 *)
normalize_scores(recommendations) ==
    LET score == [i \in DOMAIN recommendations |-> recommendations[i].recommendation_score]
        divided(max_score) ==
            IF max_score = SurdZero THEN recommendations
            ELSE [i \in DOMAIN recommendations |->
                     [normalized_score |-> SurdDiv(score[i], max_score)]
                         @@ recommendations[i]]
    IN  IF recommendations = <<>> THEN <<>>
        ELSE divided(SurdMax(score, DOMAIN recommendations))

hybrid_sort_ascending(recommendations) ==
    LET in_order(order) == [i \in DOMAIN order |-> recommendations[order[i]]]
    IN  in_order(SortDesc([i \in DOMAIN recommendations |-> i],
                          [i \in DOMAIN recommendations |->
                              SurdNeg(recommendations[i].recommendation_score)]))

(* line 86: recommendations.sort(key=recommendation_score, reverse=True) *)
hybrid_sort(recommendations) ==
    LET in_order(order) == [i \in DOMAIN order |-> recommendations[order[i]]]
    IN  in_order(SortDesc([i \in DOMAIN recommendations |-> i],
                          [i \in DOMAIN recommendations |->
                              recommendations[i].recommendation_score]))

generate_hybrid_recommendations(rs, its, user_id, limit, collaborative_weight, content_weight, min_similarity) ==
    LET ids(recs) == [i \in DOMAIN recs |-> recs[i].id]
        last(S) == CHOOSE i \in S : \A j \in S : j <= i
        first(S) == CHOOSE i \in S : \A j \in S : i <= j
        combine(collaborative_recs, content_recs) ==
            LET item_ids == Distinct(ids(collaborative_recs) \o ids(content_recs))
                in_collab(k) == {i \in DOMAIN collaborative_recs :
                                    collaborative_recs[i].id = k}
                in_content(k) == {i \in DOMAIN content_recs : content_recs[i].id = k}
                data(k) ==
                    [item |-> IF in_collab(k) # {}
                              THEN collaborative_recs[last(in_collab(k))]
                              ELSE content_recs[first(in_content(k))],
                     collaborative_score |->
                         IF in_collab(k) # {}
                         THEN normalized_score(collaborative_recs[last(in_collab(k))])
                         ELSE SurdZero,
                     content_score |->
                         IF in_content(k) # {}
                         THEN normalized_score(content_recs[last(in_content(k))])
                         ELSE SurdZero,
                     count |-> Cardinality(in_collab(k)) + Cardinality(in_content(k))]
                weighted(d) == SurdAdd(SurdScale(collaborative_weight, d.collaborative_score),
                                       SurdScale(content_weight, d.content_score))
                hybrid_score(d) == IF d.count > 1 THEN SurdScale(AgreementBoost, weighted(d))
                                   ELSE weighted(d)
                record(d) ==
                    [recommendation_score |-> hybrid_score(d),
                     recommendation_type |-> "hybrid",
                     collaborative_score |-> d.collaborative_score,
                     content_score |-> d.content_score]
                    @@ d.item
            IN  [i \in DOMAIN item_ids |-> record(data(item_ids[i]))]
    IN  Take(hybrid_sort(combine(
                 normalize_scores(generate_collaborative_recommendations(
                                      rs, its, user_id, limit * 2, min_similarity)),
                 normalize_scores(generate_content_based_recommendations(
                                      rs, its, user_id, limit * 2, min_similarity)))),
             limit)

(* get_personalized_recommendations: the defaults of the three recommenders *)
DefaultMinSimilarity == Rat(3, 10)
DefaultCollaborativeWeight == Rat(6, 10)
DefaultContentWeight == Rat(4, 10)

get_personalized_recommendations(rs, its, user_id, limit, method) ==
    IF method = "collaborative"
    THEN generate_collaborative_recommendations(rs, its, user_id, limit, DefaultMinSimilarity)
    ELSE IF method = "content"
    THEN generate_content_based_recommendations(rs, its, user_id, limit, DefaultMinSimilarity)
    ELSE generate_hybrid_recommendations(rs, its, user_id, limit, DefaultCollaborativeWeight,
                                         DefaultContentWeight, DefaultMinSimilarity)

-----------------------------------------------------------------------------
(* popular_recommendations.py.  An absent optional filter is "".            *)

(* $match on item_type / category / genres *)
match_filter(item, item_type, category, genre) ==
    /\ item_type # "" => item.item_type = item_type
    /\ category # "" => item.category = category
    /\ genre # "" => genre \in Range(item.genres)

(* $lookup from ratings, localField _id, foreignField item_id: the rating  *)
(* documents whose item_id equals the item's _id                           *)
lookup_ratings(rs, item) == {i \in DOMAIN rs : rs[i].item_id = item._id}

(* $avg of the ratings at the indices S of rs; $avg of no values is null,  *)
(* which orders below every number and is written 0 here                   *)
avg_rating(rs, S) ==
    IF S = {} THEN RatZero
    ELSE Rat(RatSum([i \in S |-> RatInt(rs[i].rating)], S)[1], Cardinality(S))

(* round(x, 2), halves to even *)
round2(q) ==
    LET n == q[1] * 100
        lo == n \div q[2]
        twice == 2 * (n % q[2])
    IN  IF twice < q[2] THEN Rat(lo, 100)
        ELSE IF twice > q[2] THEN Rat(lo + 1, 100)
        ELSE IF lo % 2 = 0 THEN Rat(lo, 100) ELSE Rat(lo + 1, 100)

enough_ratings_unchecked(joined, min_ratings) == TRUE

(* lines 39-43: $match $expr $gte [$size of the joined ratings, min_ratings] *)
enough_ratings(joined, min_ratings) == Cardinality(joined) >= min_ratings

get_popular_items(rs, its, item_type, category, genre, limit, min_ratings) ==
    LET all_items == items_find_all(its)
        joined == [i \in DOMAIN all_items |-> lookup_ratings(rs, all_items[i])]
        kept == {i \in DOMAIN all_items :
                    /\ match_filter(all_items[i], item_type, category, genre)
                    /\ enough_ratings(joined[i], min_ratings)}
        project(top, popularity_score) ==
            [j \in DOMAIN top |->
                [_id |-> all_items[top[j]]._id, id |-> str(all_items[top[j]]._id),
                 avg_rating |-> round2(avg_rating(rs, joined[top[j]])),
                 rating_count |-> Cardinality(joined[top[j]]),
                 popularity_score |-> popularity_score[top[j]],
                 recommendation_score |-> popularity_score[top[j]],
                 recommendation_type |-> "popular"]]
        sorted(popularity_score) ==
            project(Take(SortDesc(Filter([i \in DOMAIN all_items |-> i], kept),
                                  [i \in kept |-> SurdOf(popularity_score[i])]),
                         limit),
                    popularity_score)
    IN  sorted([i \in kept |->
                   RatMul(avg_rating(rs, joined[i]),
                          RatAdd(RatOne,
                                 RatMul(Rat(1, 10), RatInt(Cardinality(joined[i])))))])

lookup_ratings_of_any_age(rs, item, cutoff_date) ==
    {i \in DOMAIN rs : rs[i].item_id = str(item._id)}

(* the $lookup pipeline of get_trending_items: item_id equals $toString of *)
(* the item's _id and created_at >= cutoff_date                            *)
lookup_recent_ratings(rs, item, cutoff_date) ==
    {i \in DOMAIN rs : rs[i].item_id = str(item._id) /\ rs[i].created_at >= cutoff_date}

get_trending_items(rs, its, utcnow, item_type, days, limit) ==
    LET cutoff_date == utcnow - days
        all_items == items_find_all(its)
        recent_ratings == [i \in DOMAIN all_items |->
                              lookup_recent_ratings(rs, all_items[i], cutoff_date)]
        kept == {i \in DOMAIN all_items :
                    /\ match_filter(all_items[i], item_type, "", "")
                    /\ Cardinality(recent_ratings[i]) > 0}
        project(top, trending_score) ==
            [j \in DOMAIN top |->
                [_id |-> all_items[top[j]]._id, id |-> str(all_items[top[j]]._id),
                 trending_score |-> trending_score[top[j]],
                 recommendation_score |-> trending_score[top[j]],
                 recommendation_type |-> "trending"]]
        sorted(trending_score) ==
            project(Take(SortDesc(Filter([i \in DOMAIN all_items |-> i], kept),
                                  [i \in kept |-> SurdOf(trending_score[i])]),
                         limit),
                    trending_score)
    IN  sorted([i \in kept |-> RatMul(RatInt(Cardinality(recent_ratings[i])),
                                      avg_rating(rs, recent_ratings[i]))])


-----------------------------------------------------------------------------
(* dependencies.py, auth_service.py: the current user of a request          *)

AnonIds == {"anon1", "anon2"}
NoCredentials == "none"
BadToken == "bad"

(* get_current_user_from_token: the user the token names, if stored *)
get_current_user_from_token(us, token) == IF token \in us THEN token ELSE "None"

anonymous_reused(us) == CHOOSE a \in AnonIds : TRUE

(* create_anonymous_user inserts a new user document and returns it *)
new_anonymous(us) == CHOOSE a \in AnonIds \ us : TRUE

(* get_current_user: <<current_user.id, db.users afterwards>> *)
get_current_user(us, credentials) ==
    IF credentials = NoCredentials
    THEN <<new_anonymous(us), us \cup {new_anonymous(us)}>>
    ELSE IF get_current_user_from_token(us, credentials) = "None"
    THEN <<new_anonymous(us), us \cup {new_anonymous(us)}>>
    ELSE <<credentials, us>>

(* the request can be served within the bound on anonymous users *)
CanResolve(us, credentials) == credentials \in us \/ AnonIds \ us # {}

-----------------------------------------------------------------------------
(* routers/ratings.py, database.py                                          *)

(* db.ratings.find_one({"user_id": ..., "item_id": ...}): the index of the *)
(* first matching document, 0 for None                                     *)
ratings_find_one(rs, user_id, item_id) ==
    LET hits == {i \in DOMAIN rs : rs[i].user_id = user_id /\ rs[i].item_id = item_id}
    IN  IF hits = {} THEN 0 ELSE CHOOSE i \in hits : \A j \in hits : i <= j

unique_index_missing(rs, doc) == TRUE

(* create_indexes: the unique index on (user_id, item_id) rejects a second *)
(* document for the pair with DuplicateKeyError                            *)
unique_index_allows(rs, doc) ==
    \A i \in DOMAIN rs : ~(rs[i].user_id = doc.user_id /\ rs[i].item_id = doc.item_id)

(* lines 20-31: "ok", or the status of the HTTPException *)
create_rating_check(its, item_id) ==
    IF ~ is_valid(item_id) THEN 400
    ELSE IF items_find_one(its, ObjectId(item_id)) = None THEN 404
    ELSE 200

ratings_update_one_recreated(rs, rating_id, value, utcnow) ==
    [i \in DOMAIN rs |->
        IF rs[i]._id = rating_id
        THEN [rs[i] EXCEPT !.rating = value, !.updated_at = utcnow, !.created_at = utcnow]
        ELSE rs[i]]

(* lines 39-50: update_one by the _id of the rating found earlier *)
ratings_update_one(rs, rating_id, value, utcnow) ==
    [i \in DOMAIN rs |->
        IF rs[i]._id = rating_id
        THEN [rs[i] EXCEPT !.rating = value, !.updated_at = utcnow]
        ELSE rs[i]]

(* lines 52-60: the document insert_one is given *)
rating_dict(rating_id, user_id, item_id, value, utcnow) ==
    [_id |-> rating_id, user_id |-> user_id, item_id |-> item_id, rating |-> value,
     created_at |-> utcnow, updated_at |-> utcnow]

(* lines 38-62 given the rating found at lines 34-37 (existing_id, 0 for   *)
(* None): <<status, db.ratings afterwards>>; 500 is the DuplicateKeyError  *)
create_rating_write(rs, existing_id, fresh_id, user_id, item_id, value, utcnow) ==
    IF existing_id # 0
    THEN <<201, ratings_update_one(rs, existing_id, value, utcnow)>>
    ELSE IF unique_index_allows(rs, rating_dict(fresh_id, user_id, item_id, value, utcnow))
    THEN <<201, Append(rs, rating_dict(fresh_id, user_id, item_id, value, utcnow))>>
    ELSE <<500, rs>>

existing_rating_id(rs, user_id, item_id) ==
    IF ratings_find_one(rs, user_id, item_id) = 0 THEN 0
    ELSE rs[ratings_find_one(rs, user_id, item_id)]._id

-----------------------------------------------------------------------------
(* Bounds of the model                                                      *)

MaxTime == 2
MaxRatingId == 2
MaxLimit == 1
MaxDays == 1
MaxMinRatings == 2

RatingInputs == {2, 5}
ItemIdInputs == {Str(0), Str(1), Str(2), Str(3)}
Limits == 1 .. MaxLimit
NoRes == [op |-> "none"]
Idle == [pc |-> "idle"]
Requests == {1, 2}

-----------------------------------------------------------------------------
(* The service behind its HTTP surface, one request at a time               *)

Init ==
    /\ users = {"A"}
    /\ items = <<1, 3>>
    /\ ratings = <<>>
    /\ next_id = 1
    /\ now = 0
    /\ reqs = [p \in Requests |-> Idle]
    /\ res = NoRes

(* POST /ratings, the whole handler *)
create_rating(credentials, item_id, value) ==
    /\ CanResolve(users, credentials)
    /\ next_id <= MaxRatingId
    /\ LET who == get_current_user(users, credentials)
           checked == create_rating_check(items, item_id)
           existing == existing_rating_id(ratings, who[1], item_id)
           written == create_rating_write(ratings, existing, next_id, who[1], item_id,
                                          value, now)
       IN  /\ users' = who[2]
           /\ IF checked # 200
              THEN /\ res' = [op |-> "create_rating", status |-> checked]
                   /\ UNCHANGED <<ratings, next_id>>
              ELSE /\ ratings' = written[2]
                   /\ next_id' = IF Len(written[2]) > Len(ratings) THEN next_id + 1 ELSE next_id
                   /\ res' = [op |-> "create_rating", status |-> written[1],
                              user_id |-> who[1], item_id |-> item_id, rating |-> value,
                              updated |-> existing # 0]
    /\ UNCHANGED <<items, now, reqs>>

(* DELETE /ratings/{rating_id} *)
delete_rating(credentials, rating_id) ==
    /\ CanResolve(users, credentials)
    /\ LET who == get_current_user(users, credentials)
           hits == {i \in DOMAIN ratings : ratings[i]._id = rating_id}
           owned == {i \in hits : ratings[i].user_id = who[1]}
       IN  /\ users' = who[2]
           /\ IF hits = {} THEN
                 /\ res' = [op |-> "delete_rating", status |-> 404]
                 /\ UNCHANGED ratings
              ELSE IF owned = {} THEN
                 /\ res' = [op |-> "delete_rating", status |-> 403]
                 /\ UNCHANGED ratings
              ELSE
                 /\ res' = [op |-> "delete_rating", status |-> 204]
                 /\ ratings' = Filter(ratings, Range(ratings) \ {ratings[i] : i \in owned})
    /\ UNCHANGED <<items, next_id, now, reqs>>

(* DELETE /items/{item_id}: the item goes, its ratings stay *)
delete_item(item_id) ==
    /\ is_valid(item_id)
    /\ ObjectId(item_id)[2] \in Range(items)
    /\ items' = Filter(items, Range(items) \ {ObjectId(item_id)[2]})
    /\ res' = [op |-> "delete_item", status |-> 204]
    /\ UNCHANGED <<users, ratings, next_id, now, reqs>>

(* datetime.utcnow() advances, in days *)
Tick ==
    /\ now < MaxTime
    /\ now' = now + 1
    /\ res' = NoRes
    /\ UNCHANGED <<users, items, ratings, next_id, reqs>>


-----------------------------------------------------------------------------
(* routers/recommendations.py                                               *)

DefaultLimit == 10
MinSimilarityInputs == {RatZero, DefaultMinSimilarity}
WeightInputs == {<<DefaultCollaborativeWeight, DefaultContentWeight>>,
                 <<RatOne, RatZero>>, <<Rat(1, 2), Rat(1, 4)>>,
                 <<Rat(3, 5), Rat(41, 100)>>, <<Rat(1, 2), Rat(101, 200)>>,
                 <<Rat(3, 2), Rat(0 - 1, 2)>>}
TypeInputs == {"", "movie"}
GenreInputs == {"", "action"}

(* limit: int = Query(10, ge=1, le=100), lines 19, 45, 86, 114, 137, 167 *)
limit_unchecked(limit) == TRUE
limit_accepted(limit) == limit >= 1 /\ limit <= 100

(* float = Query(..., ge=0.0, le=1.0), lines 46, 47, 138, 168 *)
unit_accepted(x) == RatLeq(RatZero, x) /\ RatLeq(x, RatOne)

query_accepted(limit, params) ==
    limit_accepted(limit) /\ \A i \in DOMAIN params : unit_accepted(params[i])

LimitInputs == Limits \cup {0, 100, 101}
UnitInputs == {Rat(0 - 1, 100), RatOne, Rat(101, 100)}

(* a parameter outside its Query range: FastAPI answers 422 and the handler *)
(* body does not run; the dependencies of the endpoint are solved before    *)
(* the error is raised, so us is db.users after get_current_user            *)
RequestValidationError(endpoint, credentials, limit, params, us) ==
    /\ users' = us
    /\ res' = [op |-> "validation_error", endpoint |-> endpoint, status |-> 422,
               credentials |-> credentials, limit |-> limit, params |-> params]
    /\ UNCHANGED <<items, ratings, next_id, now, reqs>>

(* the fallback every personalised endpoint applies to an empty result *)
with_fallback(rs, its, recommendations, limit) ==
    IF Len(recommendations) = 0
    THEN get_popular_items(rs, its, "", "", "", limit, 1)
    ELSE recommendations

Respond(endpoint, credentials, limit, params, recommendations) ==
    /\ users' = get_current_user(users, credentials)[2]
    /\ res' = [op |-> "recommend", endpoint |-> endpoint, status |-> 200,
               credentials |-> credentials,
               user_id |-> get_current_user(users, credentials)[1], limit |-> limit,
               params |-> params, recommendations |-> recommendations,
               body |-> with_fallback(ratings, items, recommendations, limit)]
    /\ UNCHANGED <<items, ratings, next_id, now, reqs>>

(* GET /recommendations/personalized *)
get_personalized_recommendations_endpoint(credentials, method, limit) ==
    /\ CanResolve(users, credentials)
    /\ IF query_accepted(limit, <<>>)
       THEN Respond("personalized", credentials, limit, <<>>,
                    get_personalized_recommendations(
                        ratings, items, get_current_user(users, credentials)[1], limit,
                        method))
       ELSE RequestValidationError("personalized", credentials, limit, <<>>,
                                   get_current_user(users, credentials)[2])

(* |collaborative_weight + content_weight - 1.0| in exact arithmetic *)
weights_off(collaborative_weight, content_weight) ==
    RatAbs(RatSub(RatAdd(collaborative_weight, content_weight), RatOne))

(* |collaborative_weight + content_weight - 1.0| > 0.01 *)
weights_rejected(collaborative_weight, content_weight) ==
    RatLess(Rat(1, 100), weights_off(collaborative_weight, content_weight))

(* abs(collaborative_weight + content_weight - 1.0) > 0.01 as binary64      *)
(* evaluates it: weights written as decimals whose sum is off by exactly    *)
(* 0.01 are rejected (0.6 and 0.41 give 0.010000000000000009) or accepted   *)
(* (0.5093477522 and 0.5006522478 give 0.009999999999999787) as the         *)
(* conversions and the addition round                                       *)
weights_check(collaborative_weight, content_weight) ==
    IF weights_off(collaborative_weight, content_weight) = Rat(1, 100)
    THEN BOOLEAN
    ELSE {weights_rejected(collaborative_weight, content_weight)}

(* GET /recommendations/hybrid *)
get_hybrid_recommendations(credentials, limit, collaborative_weight, content_weight) ==
    /\ CanResolve(users, credentials)
    /\ IF ~query_accepted(limit, <<collaborative_weight, content_weight>>)
       THEN RequestValidationError("hybrid", credentials, limit,
                                   <<collaborative_weight, content_weight>>,
                                   get_current_user(users, credentials)[2])
       ELSE \E rejected \in weights_check(collaborative_weight, content_weight) :
                IF rejected
                THEN /\ users' = get_current_user(users, credentials)[2]
                     /\ res' = [op |-> "recommend", endpoint |-> "hybrid",
                                status |-> 400, credentials |-> credentials,
                                limit |-> limit,
                                params |-> <<collaborative_weight, content_weight>>]
                     /\ UNCHANGED <<items, ratings, next_id, now, reqs>>
                ELSE Respond("hybrid", credentials, limit,
                             <<collaborative_weight, content_weight>>,
                             generate_hybrid_recommendations(
                                 ratings, items, get_current_user(users, credentials)[1],
                                 limit, collaborative_weight, content_weight,
                                 DefaultMinSimilarity))

(* GET /recommendations/collaborative *)
get_collaborative_recommendations(credentials, limit, min_similarity) ==
    /\ CanResolve(users, credentials)
    /\ IF query_accepted(limit, <<min_similarity>>)
       THEN Respond("collaborative", credentials, limit, <<min_similarity>>,
                    generate_collaborative_recommendations(
                        ratings, items, get_current_user(users, credentials)[1], limit,
                        min_similarity))
       ELSE RequestValidationError("collaborative", credentials, limit,
                                   <<min_similarity>>,
                                   get_current_user(users, credentials)[2])

(* GET /recommendations/content-based *)
get_content_based_recommendations(credentials, limit, min_similarity) ==
    /\ CanResolve(users, credentials)
    /\ IF query_accepted(limit, <<min_similarity>>)
       THEN Respond("content-based", credentials, limit, <<min_similarity>>,
                    generate_content_based_recommendations(
                        ratings, items, get_current_user(users, credentials)[1], limit,
                        min_similarity))
       ELSE RequestValidationError("content-based", credentials, limit,
                                   <<min_similarity>>,
                                   get_current_user(users, credentials)[2])

(* GET /recommendations/popular *)
get_popular_recommendations(item_type, category, genre, limit, min_ratings) ==
    IF query_accepted(limit, <<>>)
    THEN /\ res' = [op |-> "popular", status |-> 200, item_type |-> item_type,
                    category |-> category, genre |-> genre, limit |-> limit,
                    min_ratings |-> min_ratings,
                    body |-> get_popular_items(ratings, items, item_type, category,
                                               genre, limit, min_ratings)]
         /\ UNCHANGED <<users, items, ratings, next_id, now, reqs>>
    ELSE RequestValidationError("popular", "", limit, <<>>, users)

(* GET /recommendations/trending *)
get_trending_recommendations(item_type, days, limit) ==
    IF query_accepted(limit, <<>>)
    THEN /\ res' = [op |-> "trending", status |-> 200, item_type |-> item_type,
                    days |-> days, limit |-> limit, utcnow |-> now,
                    body |-> get_trending_items(ratings, items, now, item_type, days,
                                                limit)]
         /\ UNCHANGED <<users, items, ratings, next_id, now, reqs>>
    ELSE RequestValidationError("trending", "", limit, <<>>, users)

Credentials == users \cup {NoCredentials, BadToken}

(* the response leaves; the next request is handled after it *)
Deliver ==
    /\ res # NoRes
    /\ res' = NoRes
    /\ UNCHANGED <<users, items, ratings, next_id, now, reqs>>

Handle ==
    \/ \E c \in Credentials, i \in ItemIdInputs, v \in RatingInputs : create_rating(c, i, v)
    \/ Tick
    \/ \E c \in Credentials, m \in {"hybrid", "collaborative", "content"}, l \in LimitInputs :
           get_personalized_recommendations_endpoint(c, m, l)
    \/ \E c \in Credentials, l \in LimitInputs, w \in WeightInputs :
           get_hybrid_recommendations(c, l, w[1], w[2])
    \/ \E c \in Credentials, l \in LimitInputs, m \in MinSimilarityInputs \cup UnitInputs :
           get_collaborative_recommendations(c, l, m)
    \/ \E c \in Credentials, l \in LimitInputs, m \in MinSimilarityInputs \cup UnitInputs :
           get_content_based_recommendations(c, l, m)
    \/ \E t \in TypeInputs, g \in GenreInputs, l \in LimitInputs, k \in 1 .. MaxMinRatings :
           get_popular_recommendations(t, "", g, l, k)
    \/ \E t \in TypeInputs, d \in 1 .. MaxDays, l \in LimitInputs :
           get_trending_recommendations(t, d, l)

Next == (res = NoRes /\ Handle) \/ Deliver

Spec == Init /\ [][Next]_vars


-----------------------------------------------------------------------------
(* The service functions called on a populated store.  Every store below is *)
(* one create_rating builds: each user rates the items of one sheet.        *)

EngineMaxLimit == 2

Sheets ==
    <<(* 1 *) <<>>,
      (* 2 *) <<<<1, 5>>>>,
      (* 3 *) <<<<3, 5>>>>,
      (* 4 *) <<<<1, 5>>, <<2, 4>>>>,
      (* 5 *) <<<<1, 5>>, <<2, 4>>, <<3, 5>>>>,
      (* 6 *) <<<<1, 5>>, <<2, 4>>, <<3, 3>>>>,
      (* 7 *) <<<<1, 5>>, <<2, 4>>, <<3, 3>>, <<4, 5>>, <<5, 5>>>>,
      (* 8 *) <<<<1, 5>>, <<2, 4>>, <<3, 3>>, <<4, 4>>>>,
      (* 9 *) <<<<1, 2>>, <<2, 1>>, <<3, 2>>>>,
      (* 10 *) <<<<1, 5>>, <<2, 3>>, <<3, 2>>, <<4, 2>>, <<6, 4>>>>,
      (* 11 *) <<<<1, 4>>, <<2, 4>>, <<3, 4>>, <<4, 1>>>>,
      (* 12 *) <<<<1, 3>>, <<2, 4>>, <<3, 5>>, <<5, 1>>, <<7, 5>>>>,
      (* 13 *) <<<<1, 5>>, <<2, 4>>, <<3, 3>>, <<5, 2>>, <<7, 1>>>>,
      (* 14 *) <<<<1, 5>>, <<2, 4>>, <<3, 3>>, <<4, 5>>, <<5, 4>>, <<6, 3>>>> >>

SheetsA == {1, 2, 3, 4, 6, 9}
SheetsB == {1, 5, 7, 10, 11, 12}
SheetsC == {1, 8, 10}
AllItems == <<1, 2, 3, 4, 5, 6, 7>>
FiveItems == <<1, 2, 3, 4, 5>>
ItemFourDeleted == <<1, 2, 3, 5>>
(* <<items, sheet of A, sheet of B, sheet of C>> *)
Worlds ==
    ({FiveItems} \X SheetsA \X SheetsB \X SheetsC)
        \cup ({ItemFourDeleted} \X {4, 6} \X {5, 7, 10} \X {1, 8})
        \cup ({<<1, 2, 3, 5, 6>>} \X {6} \X {14} \X {1, 8})
        \cup ({AllItems} \X SheetsA \X {1, 5, 11} \X {1, 10, 13})
EngineUsers == {"A", "B", "C", "ghost"}
EngineLimits == (1 .. EngineMaxLimit) \cup {DefaultLimit}

SheetDocs(user_id, sheet, first_id) ==
    [i \in DOMAIN sheet |->
        rating_dict(first_id + i - 1, user_id, Str(sheet[i][1]), sheet[i][2], 0)]

StoreOf(a, b, c) ==
    SheetDocs("A", Sheets[a], 1)
        \o SheetDocs("B", Sheets[b], 1 + Len(Sheets[a]))
        \o SheetDocs("C", Sheets[c], 1 + Len(Sheets[a]) + Len(Sheets[b]))

InitEngine ==
    /\ users = {"A", "B", "C"}
    /\ \E w \in Worlds : items = w[1] /\ ratings = StoreOf(w[2], w[3], w[4])
    /\ next_id = Len(ratings) + 1
    /\ now = 0
    /\ reqs = [p \in Requests |-> Idle]
    /\ res = NoRes

return_after_insert(response) ==
    /\ res' = response
    /\ ratings' = Append(ratings, rating_dict(next_id, "A", Str(1), 5, now))
    /\ UNCHANGED <<users, items, next_id, now, reqs>>

(* a service function returns: it has called find, find_one and aggregate  *)
(* only, and the collections are as they were                              *)
Return(response) ==
    /\ res' = response
    /\ UNCHANGED <<users, items, ratings, next_id, now, reqs>>

CallFindSimilarUsers(user_id, min_common_items, top_n) ==
    Return([op |-> "find_similar_users", user_id |-> user_id,
            min_common_items |-> min_common_items, top_n |-> top_n,
            out |-> find_similar_users(ratings, user_id, min_common_items, top_n)])

CallCollaborative(user_id, limit, min_similarity) ==
    Return([op |-> "collaborative", user_id |-> user_id, limit |-> limit,
            min_similarity |-> min_similarity,
            out |-> generate_collaborative_recommendations(ratings, items, user_id, limit,
                                                           min_similarity)])

CallPreferredFeatures(user_id, min_rating) ==
    Return([op |-> "preferred_features", user_id |-> user_id, min_rating |-> min_rating,
            out |-> get_user_preferred_features(ratings, items, user_id, min_rating)])

CallContentBased(user_id, limit, min_similarity) ==
    Return([op |-> "content_based", user_id |-> user_id, limit |-> limit,
            min_similarity |-> min_similarity,
            out |-> generate_content_based_recommendations(ratings, items, user_id, limit,
                                                           min_similarity)])

CallHybrid(user_id, limit, collaborative_weight, content_weight, min_similarity) ==
    Return([op |-> "hybrid", user_id |-> user_id, limit |-> limit,
            collaborative_weight |-> collaborative_weight,
            content_weight |-> content_weight, min_similarity |-> min_similarity,
            out |-> generate_hybrid_recommendations(ratings, items, user_id, limit,
                                                    collaborative_weight, content_weight,
                                                    min_similarity)])

CallSimilarItems(item_id, limit, min_similarity) ==
    Return([op |-> "similar_items", item_id |-> item_id, limit |-> limit,
            min_similarity |-> min_similarity,
            out |-> find_similar_items(items, item_id, limit, min_similarity)])

CallPopular(limit, min_ratings) ==
    Return([op |-> "popular_items", limit |-> limit, min_ratings |-> min_ratings,
            out |-> get_popular_items(ratings, items, "", "", "", limit, min_ratings)])

CallTrending(days, limit) ==
    Return([op |-> "trending_items", days |-> days, limit |-> limit, utcnow |-> now,
            out |-> get_trending_items(ratings, items, now, "", days, limit)])

Call ==
    \/ \E u \in EngineUsers, c \in {2, DefaultMinCommon}, n \in {1, DefaultTopN} :
           CallFindSimilarUsers(u, c, n)
    \/ \E u \in EngineUsers, l \in EngineLimits, m \in MinSimilarityInputs :
           CallCollaborative(u, l, m)
    \/ \E u \in EngineUsers, r \in {ContentMinRating, RatInt(4)} :
           CallPreferredFeatures(u, r)
    \/ \E u \in EngineUsers, l \in EngineLimits, m \in MinSimilarityInputs :
           CallContentBased(u, l, m)
    \/ \E u \in EngineUsers, l \in 1 .. EngineMaxLimit, m \in MinSimilarityInputs :
           \E w \in {<<RatOne, RatZero>>,
                     <<DefaultCollaborativeWeight, DefaultContentWeight>>} :
               CallHybrid(u, l, w[1], w[2], m)
    \/ \E i \in {Str(0), Str(1), Str(6)}, l \in {1, DefaultLimit},
          m \in {DefaultMinSimilarity, Half} :
           CallSimilarItems(i, l, m)
    \/ CallPopular(DefaultLimit, 1)
    \/ CallTrending(1, DefaultLimit)

NextEngine == (res = NoRes /\ Call) \/ Deliver

SpecEngine == InitEngine /\ [][NextEngine]_vars

-----------------------------------------------------------------------------
(* POST /ratings step by step: the handler gives way at each await, so two  *)
(* requests interleave between find_one (line 34) and update_one/insert_one *)
(* (lines 43, 60)                                                           *)

MaxRaceRatingId == 3
RaceUsers == {"A", "B"}
RaceItemIds == {Str(1), Str(2), Str(3)}

InFlight == {p \in Requests : reqs[p] # Idle}

InitRace ==
    /\ users = RaceUsers
    /\ items = <<1, 2>>
    /\ ratings = <<>>
    /\ next_id = 1
    /\ now = 0
    /\ reqs = [p \in Requests |-> Idle]
    /\ res = NoRes

(* lines 14-37: validation, the item lookup and the find_one for the pair *)
create_rating_find(p, credentials, item_id, value) ==
    /\ reqs[p] = Idle
    /\ next_id + Cardinality(InFlight) <= MaxRaceRatingId
    /\ LET who == get_current_user(users, credentials)
           checked == create_rating_check(items, item_id)
       IN  IF checked # 200
           THEN /\ res' = [op |-> "create_rating", status |-> checked]
                /\ UNCHANGED reqs
           ELSE /\ reqs' = [reqs EXCEPT ![p] =
                               [pc |-> "store", user_id |-> who[1], item_id |-> item_id,
                                value |-> value,
                                existing_rating |->
                                    existing_rating_id(ratings, who[1], item_id)]]
                /\ res' = NoRes
    /\ UNCHANGED <<users, items, ratings, next_id, now>>

(* lines 38-62: update_one on the rating found, or insert_one *)
create_rating_store(p) ==
    /\ reqs[p] # Idle
    /\ LET r == reqs[p]
           written == create_rating_write(ratings, r.existing_rating, next_id, r.user_id,
                                          r.item_id, r.value, now)
       IN  /\ ratings' = written[2]
           /\ next_id' = IF Len(written[2]) > Len(ratings) THEN next_id + 1 ELSE next_id
           /\ res' = [op |-> "create_rating", status |-> written[1]]
    /\ reqs' = [reqs EXCEPT ![p] = Idle]
    /\ UNCHANGED <<users, items, now>>

NextRace ==
    \/ \E p \in Requests, u \in RaceUsers, i \in RaceItemIds, v \in RatingInputs :
           create_rating_find(p, u, i, v)
    \/ \E p \in Requests : create_rating_store(p)
    \/ \E u \in RaceUsers, k \in 1 .. MaxRaceRatingId : delete_rating(u, k)

SpecRace == InitRace /\ [][NextRace]_vars

-----------------------------------------------------------------------------
(* generate_collaborative_recommendations await by await, while another     *)
(* request deletes ratings: user_ratings (line 126), the two reads of       *)
(* find_similar_users (lines 91, 96), one get_user_ratings_dict per similar *)
(* user (line 139).  No item is deleted here, so the find_one calls of      *)
(* lines 159-167 are taken together.                                        *)

MaxDeleted == 1
Caller == 1
SnapshotWorlds == {<<FiveItems, 6, 7, 8>>, <<FiveItems, 6, 7, 10>>, <<AllItems, 6, 11, 10>>}
NothingRead == [n \in {} |-> RatingsDict(<<>>)]

InitSnapshot ==
    /\ users = {"A", "B", "C"}
    /\ \E w \in SnapshotWorlds : items = w[1] /\ ratings = StoreOf(w[2], w[3], w[4])
    /\ next_id = Len(ratings) + 1
    /\ now = 0
    /\ reqs = [p \in Requests |-> Idle]
    /\ res = NoRes

Proceed(p, state) ==
    /\ reqs' = [reqs EXCEPT ![p] = state]
    /\ res' = NoRes
    /\ UNCHANGED <<users, items, ratings, next_id, now>>

Complete(p, r, out) ==
    /\ reqs' = [reqs EXCEPT ![p] = Idle]
    /\ res' = [op |-> "collaborative_call", out |-> out] @@ r
    /\ UNCHANGED <<users, items, ratings, next_id, now>>

(* line 126: user_ratings = await get_user_ratings_dict(db, user_id) *)
collaborative_begin(p, user_id, limit, min_similarity) ==
    /\ reqs[p] = Idle
    /\ Proceed(p, [pc |-> "find_user", user_id |-> user_id, limit |-> limit,
                   min_similarity |-> min_similarity,
                   user_rated_items |-> Range(get_user_ratings_dict(ratings, user_id).keys),
                   user_ratings |-> RatingsDict(<<>>),
                   all_users_ratings |-> RatingsDict(<<>>),
                   similar_users |-> <<>>, neighbour_ratings |-> NothingRead])

(* find_similar_users, lines 91-94 *)
collaborative_find_user(p) ==
    /\ reqs[p] # Idle
    /\ reqs[p].pc = "find_user"
    /\ LET read(user_ratings) ==
               IF Len(user_ratings.keys) = 0
               THEN Complete(p, reqs[p], <<>>)
               ELSE Proceed(p, [reqs[p] EXCEPT !.pc = "find_all",
                                               !.user_ratings = user_ratings])
       IN  read(get_user_ratings_dict(ratings, reqs[p].user_id))

(* find_similar_users, lines 96-114, and lines 132-133 *)
collaborative_find_all(p) ==
    /\ reqs[p] # Idle
    /\ reqs[p].pc = "find_all"
    /\ LET ranked(all_users_ratings, similar_users) ==
               IF Len(similar_users) = 0
               THEN Complete(p, [reqs[p] EXCEPT !.all_users_ratings = all_users_ratings],
                             <<>>)
               ELSE Proceed(p, [reqs[p] EXCEPT !.pc = "accumulate",
                                               !.all_users_ratings = all_users_ratings,
                                               !.similar_users = similar_users])
           read(all_users_ratings) ==
               ranked(all_users_ratings,
                      rank_similar_users(reqs[p].user_ratings, all_users_ratings,
                                         reqs[p].user_id, CollabMinCommon, CollabTopN))
       IN  read(get_all_users_ratings(ratings))

(* the similar users the loop of lines 135-144 has still to read: those not *)
(* skipped at line 136 and not read yet                                     *)
ToRead(r) ==
    {j \in DOMAIN r.similar_users :
        /\ ~ SurdLess(r.similar_users[j][2], SurdOf(r.min_similarity))
        /\ r.similar_users[j][1] \notin DOMAIN r.neighbour_ratings}

neighbour_read_snapshot(rs, similar_user_id) ==
    reqs[1].all_users_ratings.val[similar_user_id]

(* line 139: similar_user_ratings = await get_user_ratings_dict(...) *)
neighbour_read(rs, similar_user_id) == get_user_ratings_dict(rs, similar_user_id)

collaborative_read_neighbour(p) ==
    /\ reqs[p] # Idle
    /\ reqs[p].pc = "accumulate"
    /\ ToRead(reqs[p]) # {}
    /\ LET j == CHOOSE j \in ToRead(reqs[p]) : \A k \in ToRead(reqs[p]) : j <= k
           n == reqs[p].similar_users[j][1]
       IN  Proceed(p, [reqs[p] EXCEPT !.neighbour_ratings =
                          [m \in {n} |-> neighbour_read(ratings, n)]
                              @@ reqs[p].neighbour_ratings])

(* lines 146-167: scores, sort, the item lookups, return *)
collaborative_return(p) ==
    /\ reqs[p] # Idle
    /\ reqs[p].pc = "accumulate"
    /\ ToRead(reqs[p]) = {}
    /\ Complete(p, reqs[p],
                collaborative_result(
                    top_candidates(
                        collaborative_scores(reqs[p].user_rated_items,
                                             reqs[p].similar_users,
                                             reqs[p].neighbour_ratings,
                                             reqs[p].min_similarity),
                        reqs[p].limit),
                    items))

(* DELETE /ratings/{rating_id} by the rating's owner, from another request *)
concurrent_delete(rating_id) ==
    /\ next_id - 1 - Len(ratings) < MaxDeleted
    /\ \E i \in DOMAIN ratings :
           ratings[i]._id = rating_id /\ delete_rating(ratings[i].user_id, rating_id)

NextSnapshot ==
    \/ \E u \in {"A", "B", "C"}, l \in 1 .. EngineMaxLimit, m \in MinSimilarityInputs :
           collaborative_begin(Caller, u, l, m)
    \/ collaborative_find_user(Caller)
    \/ collaborative_find_all(Caller)
    \/ collaborative_read_neighbour(Caller)
    \/ collaborative_return(Caller)
    \/ \E k \in 1 .. 13 : concurrent_delete(k)

SpecSnapshot == InitSnapshot /\ [][NextSnapshot]_vars

-----------------------------------------------------------------------------
(* pearson_correlation on its own, over small rating dicts                  *)

MaxKey == 3
PearsonValues == {2, 4, 5}
PearsonDicts == UNION {[K -> PearsonValues] : K \in SUBSET (1 .. MaxKey)}

InitPearson ==
    /\ users = {}
    /\ items = <<>>
    /\ ratings = <<>>
    /\ next_id = 1
    /\ now = 0
    /\ reqs = [p \in Requests |-> Idle]
    /\ res = NoRes

CallPearson(ratings1, ratings2) ==
    Return([op |-> "pearson_correlation", ratings1 |-> ratings1, ratings2 |-> ratings2,
            out |-> pearson_correlation(ratings1, ratings2)])

NextPearson ==
    \/ res = NoRes /\ \E r1 \in PearsonDicts, r2 \in PearsonDicts : CallPearson(r1, r2)
    \/ Deliver

SpecPearson == InitPearson /\ [][NextPearson]_vars

-----------------------------------------------------------------------------
(* cosine_similarity_features in floating point.  A Python float is a       *)
(* binary floating-point number, every operation rounded to the nearest     *)
(* representable value, ties to even: <<m, e>> is m * 2^e with              *)
(* 2^(MantissaBits-1) <= m < 2^MantissaBits, and <<0, 0>> is 0.0.  Python's  *)
(* floats have 53 bits; the model keeps MantissaBits of them.               *)

MantissaBits == 7

RECURSIVE Pow2(_)
Pow2(n) == IF n = 0 THEN 1 ELSE 2 * Pow2(n - 1)

FloatZero == <<0, 0>>

(* the number of bits of n beyond MantissaBits *)
RECURSIVE ExtraBits(_)
ExtraBits(n) == IF n < Pow2(MantissaBits) THEN 0 ELSE 1 + ExtraBits(n \div 2)

(* the float nearest to n * 2^e, n >= 0 *)
RECURSIVE FloatRound(_, _)
FloatRound(n, e) ==
    IF n = 0 THEN FloatZero
    ELSE IF n < Pow2(MantissaBits - 1) THEN FloatRound(2 * n, e - 1)
    ELSE LET k == ExtraBits(n)
             q == n \div Pow2(k)
             r == n % Pow2(k)
             up == 2 * r > Pow2(k) \/ (2 * r = Pow2(k) /\ q % 2 = 1)
         IN  IF k = 0 \/ ~ up THEN <<q, e + k>>
             ELSE IF q + 1 = Pow2(MantissaBits) THEN <<Pow2(MantissaBits - 1), e + k + 1>>
             ELSE <<q + 1, e + k>>

FloatMul(x, y) == FloatRound(x[1] * y[1], x[2] + y[2])

FloatAdd(x, y) ==
    IF x[1] = 0 THEN y
    ELSE IF y[1] = 0 THEN x
    ELSE LET e == IF x[2] < y[2] THEN x[2] ELSE y[2]
         IN  FloatRound(x[1] * Pow2(x[2] - e) + y[1] * Pow2(y[2] - e), e)

(* x / y, y # 0: the quotient to MantissaBits + 2 bits and a sticky bit *)
FloatDiv(x, y) ==
    LET n == x[1] * Pow2(MantissaBits + 2)
    IN  FloatRound(2 * (n \div y[1]) + (IF n % y[1] = 0 THEN 0 ELSE 1),
                   x[2] - y[2] - MantissaBits - 3)

(* the largest r with r * r <= n *)
RECURSIVE ISqrt(_)
ISqrt(n) ==
    IF n < 2 THEN n
    ELSE LET s == 2 * ISqrt(n \div 4)
         IN  IF (s + 1) * (s + 1) <= n THEN s + 1 ELSE s

(* math.sqrt: the root to MantissaBits + 1 bits at least and a sticky bit *)
FloatSqrt(x) ==
    LET k == IF (x[2] - MantissaBits) % 2 = 0 THEN MantissaBits + 2 ELSE MantissaBits + 3
        root(n, r) == FloatRound(2 * r + (IF r * r = n THEN 0 ELSE 1),
                                 ((x[2] - k) \div 2) - 1)
        rooted(n) == root(n, ISqrt(n))
    IN  IF x[1] = 0 THEN FloatZero ELSE rooted(x[1] * Pow2(k))

(* the float of the literal or quotient n / d *)
FloatOf(n, d) == FloatDiv(FloatRound(n, 0), FloatRound(d, 0))
FloatOne == FloatOf(1, 1)

(* sum(t[f] for f in order): additions from 0, left to right *)
RECURSIVE FloatSum(_, _)
FloatSum(t, order) ==
    IF order = <<>> THEN FloatZero
    ELSE FloatAdd(FloatSum(t, SubSeq(order, 1, Len(order) - 1)), t[order[Len(order)]])

(* features.get(f, 0.0) *)
FloatGet(features, f) == IF f \in DOMAIN features THEN features[f] ELSE FloatZero

cosine_float_not_normalised(features1, features2, all_features) ==
    FloatSum([f \in Range(all_features) |->
                 FloatMul(FloatGet(features1, f), FloatGet(features2, f))],
             all_features)

(* lines 44-65 on floats; all_features is the key union in the order the    *)
(* set is iterated in, the same order in the three sums of one call         *)
cosine_similarity_features_float(features1, features2, all_features) ==
    LET dot_product ==
            FloatSum([f \in Range(all_features) |->
                         FloatMul(FloatGet(features1, f), FloatGet(features2, f))],
                     all_features)
        sq(features) ==
            FloatSum([f \in Range(all_features) |->
                         FloatMul(FloatGet(features, f), FloatGet(features, f))],
                     all_features)
        divide(magnitude1, magnitude2) ==
            IF magnitude1 = FloatZero \/ magnitude2 = FloatZero THEN FloatZero
            ELSE FloatDiv(dot_product, FloatMul(magnitude1, magnitude2))
    IN  IF all_features = <<>> THEN FloatZero
        ELSE divide(FloatSqrt(sq(features1)), FloatSqrt(sq(features2)))

(* the orders a set can be iterated in *)
Orders(S) == {o \in [1 .. Cardinality(S) -> S] : Range(o) = S}

FeatureKeys == {<<"genre", "action">>, <<"type", "movie">>, <<"tag", "classic">>}
(* weights of a user profile (1.0, and 3/5 = rating 3 / 5.0) and of an item *)
(* (1.0 and 0.5)                                                            *)
ProfileWeights == {FloatOne, FloatOf(3, 5)}
ItemWeights == {FloatOne, FloatOf(1, 2)}
ProfileVectors == UNION {[K -> ProfileWeights] : K \in SUBSET FeatureKeys}
ItemVectors == UNION {[K -> ItemWeights] : K \in SUBSET FeatureKeys}

(* cosine_similarity_features(features1, features2) and, in another call,   *)
(* cosine_similarity_features(features2, features1)                         *)
CallCosine(features1, features2, order, swapped_order) ==
    Return([op |-> "cosine_similarity_features", features1 |-> features1,
            features2 |-> features2, order |-> order, swapped_order |-> swapped_order,
            out |-> cosine_similarity_features_float(features1, features2, order),
            swapped |-> cosine_similarity_features_float(features2, features1,
                                                         swapped_order)])

NextCosine ==
    \/ /\ res = NoRes
       /\ \E features1 \in ProfileVectors, features2 \in ItemVectors :
              \E order, swapped_order \in Orders((DOMAIN features1) \cup (DOMAIN features2)) :
                  CallCosine(features1, features2, order, swapped_order)
    \/ Deliver

SpecCosine == InitPearson /\ [][NextCosine]_vars

-----------------------------------------------------------------------------
(* extract_item_features on its own, over item documents of every type      *)
(* with and without each field; update_item stores any metadata dict, so a  *)
(* document can carry the metadata keys of another type                     *)

CastInputs == {<<>>, <<"a1", "a1">>, <<"a1", "a2", "a3", "a4", "a5", "a6">>}

ItemDocs ==
    {[_id |-> Oid(1), item_type |-> t, genres |-> g, tags |-> <<"classic">>,
      category |-> c,
      metadata |-> [director |-> d, cast |-> a, brand |-> b, author |-> w,
                    publisher |-> p]] :
        t \in {"movie", "product", "book"},
        g \in {<<>>, <<"action", "drama">>},
        c \in {"", "audio"}, d \in {"", "d1"}, a \in CastInputs, b \in {"", "b1"},
        w \in {"", "w1"}, p \in {"", "p1"}}

CallExtractItemFeatures(item) ==
    Return([op |-> "extract_item_features", item |-> item,
            out |-> extract_item_features(item)])

NextFeatures ==
    \/ res = NoRes /\ \E item \in ItemDocs : CallExtractItemFeatures(item)
    \/ Deliver

SpecFeatures == InitPearson /\ [][NextFeatures]_vars

-----------------------------------------------------------------------------
(* The two similarity functions on inputs that make a divisor zero: vectors *)
(* that are empty or hold only 0.0, ratings that are constant over the      *)
(* common items                                                             *)

GuardVectors == UNION {[K -> {RatZero, Half, RatOne}] : K \in SUBSET FeatureKeys}

CallCosineExact(features1, features2) ==
    Return([op |-> "cosine_similarity_features", features1 |-> features1,
            features2 |-> features2,
            out |-> cosine_similarity_features(features1, features2)])

NextSimilarity ==
    \/ res = NoRes /\ \E r1 \in PearsonDicts, r2 \in PearsonDicts : CallPearson(r1, r2)
    \/ res = NoRes /\ \E features1 \in GuardVectors, features2 \in GuardVectors :
                          CallCosineExact(features1, features2)
    \/ Deliver

SpecSimilarity == InitPearson /\ [][NextSimilarity]_vars

-----------------------------------------------------------------------------
(* Properties                                                               *)

(* the item ids (string form) user_id has a stored rating for *)
RatedItems(user_id) ==
    {ratings[i].item_id : i \in {j \in DOMAIN ratings : ratings[j].user_id = user_id}}

(* the <<item_id, rating>> pairs user_id has stored *)
RatingsOf(user_id) ==
    {<<ratings[i].item_id, ratings[i].rating>> :
        i \in {j \in DOMAIN ratings : ratings[j].user_id = user_id}}

OutIds(out) == {out[i].id : i \in DOMAIN out}
PosOf(out, id) == CHOOSE i \in DOMAIN out : out[i].id = id
ScoreOf(out, id) == out[PosOf(out, id)].recommendation_score

StoredRatingOnExistingItem ==
    \E i \in DOMAIN ratings :
        /\ is_valid(ratings[i].item_id)
        /\ items_find_one(items, ObjectId(ratings[i].item_id)) # None

C2_FallbackNonEmpty ==
    (/\ res.op = "recommend"
     /\ res.status = 200
     /\ res.recommendations = <<>>
     /\ StoredRatingOnExistingItem)
        => /\ res.body = get_popular_items(ratings, items, "", "", "", res.limit, 1)
           /\ res.body # <<>>

(* C3: for rating maps r1, r2 with at least two common keys and identical   *)
(* values on every common key, pearson_correlation(r1, r2) is 1.0.          *)
PearsonCommon == (DOMAIN res.ratings1) \cap (DOMAIN res.ratings2)

PearsonAgree ==
    /\ res.op = "pearson_correlation"
    /\ Cardinality(PearsonCommon) >= 2
    /\ \A k \in PearsonCommon : res.ratings1[k] = res.ratings2[k]

C3_Original == PearsonAgree => res.out = SurdOf(RatOne)

(* C3 as amended: the correlation is 1 when the common values are not all   *)
(* the same number, and 0.0 when they are (the denominator is 0 then).      *)
C3_IdenticalRatings ==
    PearsonAgree =>
        res.out = IF \E k, l \in PearsonCommon : res.ratings1[k] # res.ratings1[l]
                  THEN SurdOf(RatOne)
                  ELSE SurdZero

C3_Witness ==
    /\ PearsonAgree
    /\ \E k, l \in PearsonCommon : res.ratings1[k] # res.ratings1[l]
    /\ DOMAIN res.ratings1 # DOMAIN res.ratings2

(* C4: with exactly the ratings A:{item1:5, item2:4} and                    *)
(* B:{item1:5, item2:4, item3:5} and the three items existing,              *)
(* find_similar_users(A) with default parameters returns B and              *)
(* generate_collaborative_recommendations(A) with default parameters        *)
(* returns item3 with recommendation_score 5.0.                             *)
ScenarioAB ==
    /\ RatingsOf("A") = {<<Str(1), 5>>, <<Str(2), 4>>}
    /\ RatingsOf("B") = {<<Str(1), 5>>, <<Str(2), 4>>, <<Str(3), 5>>}
    /\ Len(ratings) = 5
    /\ {1, 2, 3} \subseteq Range(items)

FindSimilarForA == ScenarioAB /\ res.op = "find_similar_users" /\ res.user_id = "A"
CollaborativeForA == ScenarioAB /\ res.op = "collaborative" /\ res.user_id = "A"

C4_Original ==
    /\ (FindSimilarForA /\ res.min_common_items = DefaultMinCommon
                        /\ res.top_n = DefaultTopN)
           => \E i \in DOMAIN res.out : res.out[i][1] = "B"
    /\ (CollaborativeForA /\ res.limit = DefaultLimit
                          /\ res.min_similarity = DefaultMinSimilarity)
           => \E i \in DOMAIN res.out :
                  /\ res.out[i].id = Str(3)
                  /\ res.out[i].recommendation_score = SurdOf(RatInt(5))

(* C4 as amended: A and B share two items, fewer than the default           *)
(* min_common_items of 3, so find_similar_users(A) with its defaults and    *)
(* generate_collaborative_recommendations(A) return empty lists;            *)
(* find_similar_users(A, min_common_items=2) returns exactly B, with        *)
(* similarity 1.                                                            *)
C4_ScenarioAB ==
    /\ (FindSimilarForA /\ res.min_common_items = DefaultMinCommon) => res.out = <<>>
    /\ (FindSimilarForA /\ res.min_common_items = 2)
           => res.out = <<<<"B", SurdOf(RatOne)>>>>
    /\ CollaborativeForA => res.out = <<>>

C4_Witness == FindSimilarForA /\ res.min_common_items = 2 /\ res.out # <<>>

(* C5: generate_hybrid_recommendations with collaborative_weight=1 and      *)
(* content_weight=0 ranks the items that come from the collaborative list   *)
(* in the same relative order as generate_collaborative_recommendations.    *)
HybridCollaborativeOnly ==
    /\ res.op = "hybrid"
    /\ res.collaborative_weight = RatOne
    /\ res.content_weight = RatZero

CollaborativeList ==
    generate_collaborative_recommendations(ratings, items, res.user_id, res.limit * 2,
                                           res.min_similarity)
ContentList ==
    generate_content_based_recommendations(ratings, items, res.user_id, res.limit * 2,
                                           res.min_similarity)

SameRelativeOrder(first, second) ==
    \A i, j \in DOMAIN first :
        (i < j /\ first[i].id \in OutIds(second) /\ first[j].id \in OutIds(second))
            => PosOf(second, first[i].id) < PosOf(second, first[j].id)

C5_Original == HybridCollaborativeOnly => SameRelativeOrder(CollaborativeList, res.out)

(* C5 as amended: the order is that of the collaborative list when no item  *)
(* of the collaborative list is also in the content-based list; an item in  *)
(* both lists has its score multiplied by 1.2 even though content_weight    *)
(* is 0, and may move ahead.                                                *)
C5_OrderWithoutAgreement ==
    (HybridCollaborativeOnly /\ OutIds(CollaborativeList) \cap OutIds(ContentList) = {})
        => SameRelativeOrder(CollaborativeList, res.out)

C5_Witness ==
    /\ HybridCollaborativeOnly
    /\ OutIds(CollaborativeList) \cap OutIds(ContentList) = {}
    /\ ContentList # <<>>
    /\ Cardinality(OutIds(CollaborativeList) \cap OutIds(res.out)) >= 2

(* an existing item with genres=["action"], no tags and no metadata *)
PlainAction(k) ==
    /\ k \in Range(items)
    /\ Catalogue[k].genres = <<"action">>
    /\ Catalogue[k].tags = <<>>
    /\ Catalogue[k].category = ""
    /\ Catalogue[k].metadata = NoMeta

(* the user of the call has rated X=5 and nothing else *)
RatedOnly(x) == RatingsOf(res.user_id) = {<<Str(x), 5>>}

ScenarioXY(x, y) == x # y /\ PlainAction(x) /\ PlainAction(y) /\ RatedOnly(x)

(* C6: if X and Y each have genres=["action"], no tags and no metadata, and *)
(* u has rated X=5 and nothing else, generate_content_based_recommendations *)
(* (u) with default parameters returns Y with recommendation_score 1.0.     *)
C6_Original ==
    (/\ res.op = "content_based"
     /\ res.limit = DefaultLimit
     /\ res.min_similarity = DefaultMinSimilarity)
        => \A x, y \in ItemNums :
               ScenarioXY(x, y) =>
                   /\ Str(y) \in OutIds(res.out)
                   /\ ScoreOf(res.out, Str(y)) = SurdOf(RatOne)

(* C6 as amended: the profile also holds type:<item_type of X>, so Y's      *)
(* score is 1 when Y has the item_type of X and 1/2 when it has another;    *)
(* Y is returned when min_similarity is at most that score and the unrated  *)
(* items number at most limit.                                              *)
C6_ScoreByType ==
    res.op = "content_based" =>
        \A x, y \in ItemNums :
            ScenarioXY(x, y) =>
                /\ Str(y) \in OutIds(res.out) =>
                       ScoreOf(res.out, Str(y)) =
                           IF Catalogue[x].item_type = Catalogue[y].item_type
                           THEN SurdOf(RatOne) ELSE SurdOf(Half)
                /\ (Len(items) - 1 <= res.limit /\ RatLeq(res.min_similarity, Half))
                       => Str(y) \in OutIds(res.out)

C6_Witness ==
    /\ res.op = "content_based"
    /\ res.limit = DefaultLimit
    /\ res.min_similarity = DefaultMinSimilarity
    /\ \E x, y \in ItemNums :
           /\ ScenarioXY(x, y)
           /\ Catalogue[x].item_type # Catalogue[y].item_type
           /\ Str(y) \in OutIds(res.out)

(* C7: if X has genres=["action"], no tags and no metadata, and u has rated *)
(* X=5 and nothing else, get_user_preferred_features(u) returns exactly     *)
(* {"genre:action": 1.0}.                                                   *)
C7_Original ==
    (res.op = "preferred_features" /\ res.min_rating = ContentMinRating)
        => \A x \in ItemNums :
               (PlainAction(x) /\ RatedOnly(x))
                   => res.out = [f \in {<<"genre", "action">>} |-> RatOne]

(* C7 as amended: the map is {"genre:action": 1.0, "type:<item_type>": 1.0} *)
(* with the item_type of X.                                                 *)
C7_ProfileWithType ==
    (res.op = "preferred_features" /\ res.min_rating = ContentMinRating)
        => \A x \in ItemNums :
               (PlainAction(x) /\ RatedOnly(x))
                   => res.out = [f \in {<<"genre", "action">>,
                                        <<"type", Catalogue[x].item_type>>} |-> RatOne]

C7_Witness ==
    /\ res.op = "preferred_features"
    /\ res.min_rating = ContentMinRating
    /\ \E x \in ItemNums :
           PlainAction(x) /\ RatedOnly(x) /\ Catalogue[x].item_type = "book"

(* C8: after any interleaving of create_rating calls the ratings collection *)
(* holds at most one rating per (user_id, item_id) pair, and a write for a  *)
(* pair that has a rating does not add a second one.                        *)
PairStored(user_id, item_id) ==
    \E i \in DOMAIN ratings : ratings[i].user_id = user_id /\ ratings[i].item_id = item_id

C8_OnePerPair ==
    \A i, j \in DOMAIN ratings :
        (ratings[i].user_id = ratings[j].user_id /\ ratings[i].item_id = ratings[j].item_id)
            => i = j

C8_WriteForStoredPair ==
    \A p \in Requests :
        (/\ reqs[p] # Idle
         /\ reqs'[p] = Idle
         /\ PairStored(reqs[p].user_id, reqs[p].item_id))
            => Len(ratings') = Len(ratings)

C8_AtMostOnePerPair == [](C8_OnePerPair) /\ [][C8_WriteForStoredPair]_vars

(* two requests for one pair both found no rating; the second insert was    *)
(* refused by the unique index                                              *)
C8_Witness == res.op = "create_rating" /\ res.status = 500

(* C9: for every k >= 1, no item with fewer than k ratings appears in the   *)
(* result of get_popular_items(min_ratings=k).                              *)
StoredRatings(id) == {i \in DOMAIN ratings : ratings[i].item_id = id}

C9_PopularExcludesBelowMin ==
    res.op = "popular" =>
        \A i \in DOMAIN res.body :
            Cardinality(StoredRatings(res.body[i].id)) >= res.min_ratings

(* min_ratings = 2 was asked while an item passing the filters has one rating *)
C9_Witness ==
    /\ res.op = "popular"
    /\ res.min_ratings = 2
    /\ \E k \in Range(items) :
           /\ Cardinality(StoredRatings(Str(k))) = 1
           /\ match_filter(Catalogue[k], res.item_type, res.category, res.genre)

(* C10: get_trending_items(days=d) returns an item only if it has a rating  *)
(* with created_at >= now - d days, and its trending_score is the number of *)
(* those in-window ratings times their average; older ratings count in      *)
(* neither.                                                                 *)
InWindow(id) ==
    {i \in StoredRatings(id) : ratings[i].created_at >= res.utcnow - res.days}

RECURSIVE SumOfRatings(_)
SumOfRatings(S) ==
    IF S = {} THEN 0
    ELSE LET i == CHOOSE i \in S : TRUE IN ratings[i].rating + SumOfRatings(S \ {i})

C10_TrendingWindow ==
    res.op = "trending" =>
        \A i \in DOMAIN res.body :
            LET W == InWindow(res.body[i].id)
            IN  /\ W # {}
                /\ res.body[i].trending_score =
                       RatMul(RatInt(Cardinality(W)), Rat(SumOfRatings(W), Cardinality(W)))

(* a trending item that also has a rating older than the cutoff *)
C10_Witness ==
    /\ res.op = "trending"
    /\ \E i \in DOMAIN res.body :
           StoredRatings(res.body[i].id) \ InWindow(res.body[i].id) # {}

(* C11: for two rating maps with fewer than two common keys (none or one),  *)
(* pearson_correlation returns 0.0.                                         *)
C11_FewCommonKeysZero ==
    (res.op = "pearson_correlation" /\ Cardinality(PearsonCommon) < 2)
        => res.out = SurdZero

(* two non-empty maps with different values that share exactly one key *)
C11_Witness ==
    /\ res.op = "pearson_correlation"
    /\ Cardinality(PearsonCommon) = 1
    /\ Cardinality(DOMAIN res.ratings1) >= 2
    /\ Cardinality(DOMAIN res.ratings2) >= 2
    /\ res.out = SurdZero

(* the rational a float stands for *)
FloatRat(x) == IF x[2] >= 0 THEN RatInt(x[1] * Pow2(x[2])) ELSE Rat(x[1], Pow2(-x[2]))
FloatDistance(x, y) == RatAbs(RatSub(FloatRat(x), FloatRat(y)))

CosineCall == res.op = "cosine_similarity_features"
CosineSelf == CosineCall /\ res.features1 = res.features2 /\ DOMAIN res.features1 # {}

(* C12: cosine_similarity_features(v, v) equals 1.0 for every vector v with *)
(* a non-zero weight, and cosine_similarity_features(a, b) equals           *)
(* cosine_similarity_features(b, a) for all a and b.                        *)
C12_Original ==
    /\ CosineSelf => res.out = FloatOne
    /\ CosineCall => res.out = res.swapped

(* C12 as amended: cosine(v, v) is 1.0 up to rounding, within four rounding *)
(* units (2^-MantissaBits each) of 1; cosine(a, b) and cosine(b, a) are     *)
(* equal when both calls add the terms in the same order, and otherwise     *)
(* differ by at most 4n + 8 rounding units, n the number of keys.           *)
C12_CosineUpToRounding ==
    /\ CosineSelf => RatLeq(FloatDistance(res.out, FloatOne), Rat(4, Pow2(MantissaBits)))
    /\ (CosineCall /\ res.order = res.swapped_order) => res.out = res.swapped
    /\ CosineCall =>
           RatLeq(FloatDistance(res.out, res.swapped),
                  Rat(4 * Len(res.order) + 8, Pow2(MantissaBits)))

(* a vector whose similarity to itself is not 1.0 *)
C12_Witness == CosineSelf /\ res.out # FloatOne /\ res.order = res.swapped_order

(* C13: while the ratings collection is empty, the collaborative and the    *)
(* content-based recommender return an empty list for every user, the       *)
(* fallback get_popular_items(min_ratings=1) returns an empty list too, and *)
(* the endpoint answers a valid request with an empty list, not an error    *)
(* (the one other answer is the hybrid endpoint's 400 for weights that do   *)
(* not sum to 1).                                                           *)
C13_EmptyStoreEmptyAnswer ==
    (res.op = "recommend" /\ ratings = <<>>) =>
        IF res.status = 400 THEN res.endpoint = "hybrid"
        ELSE /\ \A u \in users \cup AnonIds :
                    /\ generate_collaborative_recommendations(
                           ratings, items, u, res.limit, DefaultMinSimilarity) = <<>>
                    /\ generate_content_based_recommendations(
                           ratings, items, u, res.limit, DefaultMinSimilarity) = <<>>
             /\ get_popular_items(ratings, items, "", "", "", res.limit, 1) = <<>>
             /\ res.status = 200
             /\ res.recommendations = <<>>
             /\ res.body = <<>>

(* a personalised endpoint answered while items exist and no rating does *)
C13_Witness ==
    /\ res.op = "recommend"
    /\ res.endpoint = "collaborative"
    /\ ratings = <<>>
    /\ items # <<>>
    /\ res.body = <<>>

EngineOps == {"find_similar_users", "collaborative", "preferred_features", "content_based",
              "hybrid"}
NoRatings(user_id) == RatingsOf(user_id) = {}
AllBelowThree(user_id) ==
    /\ RatingsOf(user_id) # {}
    /\ \A r \in RatingsOf(user_id) : r[2] < 3

(* C14: for a user id without ratings, and for a user whose ratings are all *)
(* below 3, find_similar_users, generate_collaborative_recommendations,     *)
(* get_user_preferred_features, generate_content_based_recommendations and  *)
(* generate_hybrid_recommendations each return an empty result.             *)
C14_Original ==
    (res.op \in EngineOps /\ (NoRatings(res.user_id) \/ AllBelowThree(res.user_id)))
        => DOMAIN res.out = {}

(* C14 as amended: the five functions return an empty result for a user id  *)
(* without ratings; for a user whose ratings are all below 3 the profile    *)
(* and the content-based list are empty, while find_similar_users and the   *)
(* collaborative and hybrid lists depend on the correlation with other      *)
(* users, not on the level of the ratings, and can be non-empty.            *)
C14_EmptyForNoRatings ==
    /\ (res.op \in EngineOps /\ NoRatings(res.user_id)) => DOMAIN res.out = {}
    /\ (res.op \in {"preferred_features", "content_based"} /\ AllBelowThree(res.user_id))
           => DOMAIN res.out = {}

(* a user with ratings below 3 only asks for content-based recommendations  *)
(* while items they have not rated exist                                    *)
C14_Witness ==
    /\ res.op = "content_based"
    /\ AllBelowThree(res.user_id)
    /\ \E k \in Range(items) : Str(k) \notin RatedItems(res.user_id)
    /\ res.out = <<>>

ServiceOps == EngineOps \cup {"similar_items", "popular_items", "trending_items"}

FeatureNames == {"action", "drama", "classic", "movie", "product", "book", "audio", "d1",
                 "b1", "w1", "p1", "a1", "a2", "a3", "a4", "a5", "a6", ""}
FeaturePrefixes == {"genre", "tag", "type", "director", "actor", "brand", "category",
                    "author", "publisher"}

(* the weight C16 gives the key f of item, 0 for a key that is to be absent *)
ClaimedWeight(item, f) ==
    LET name == f[2]
        present == name # ""
        movie == item.item_type = "movie"
        product == item.item_type = "product"
        book == item.item_type = "book"
        cast == item.metadata.cast
    IN  CASE f[1] = "genre" -> IF \E i \in DOMAIN item.genres : item.genres[i] = name
                               THEN RatOne ELSE RatZero
          [] f[1] = "tag" -> IF \E i \in DOMAIN item.tags : item.tags[i] = name
                             THEN RatOne ELSE RatZero
          [] f[1] = "type" -> IF item.item_type = name THEN RatOne ELSE RatZero
          [] f[1] = "director" -> IF movie /\ present /\ item.metadata.director = name
                                  THEN RatOne ELSE RatZero
          [] f[1] = "actor" -> IF movie /\ \E i \in DOMAIN cast : i <= 5 /\ cast[i] = name
                               THEN Rat(1, 2) ELSE RatZero
          [] f[1] = "brand" -> IF product /\ present /\ item.metadata.brand = name
                               THEN RatOne ELSE RatZero
          [] f[1] = "category" -> IF product /\ present /\ item.category = name
                                  THEN RatOne ELSE RatZero
          [] f[1] = "author" -> IF book /\ present /\ item.metadata.author = name
                                THEN RatOne ELSE RatZero
          [] f[1] = "publisher" -> IF book /\ present /\ item.metadata.publisher = name
                                   THEN Rat(1, 2) ELSE RatZero

(* C16: extract_item_features returns exactly genre:<g> = 1.0 per genre,    *)
(* tag:<t> = 1.0 per tag, type:<item_type> = 1.0; for a movie               *)
(* director:<name> = 1.0 if present and actor:<name> = 0.5 for each of the  *)
(* first five cast members only; for a product brand:<name> = 1.0 and       *)
(* category:<category> = 1.0 if present; for a book author:<name> = 1.0 and *)
(* publisher:<name> = 0.5 if present; no other key; and the same item       *)
(* always yields the same vector.                                           *)
C16_FeatureVector ==
    res.op = "extract_item_features" =>
        /\ DOMAIN res.out \subseteq FeaturePrefixes \X FeatureNames
        /\ \A f \in FeaturePrefixes \X FeatureNames :
               FeatureGet(res.out, f) = ClaimedWeight(res.item, f)
        /\ res.out = extract_item_features(res.item)

(* a movie with six cast members, a brand and an author: five actor keys,   *)
(* none for the sixth, none for the brand and the author                    *)
C16_Witness ==
    /\ res.op = "extract_item_features"
    /\ res.item.item_type = "movie"
    /\ Len(res.item.metadata.cast) = 6
    /\ res.item.metadata.brand # ""
    /\ res.item.metadata.author # ""
    /\ <<"actor", "a5">> \in DOMAIN res.out
    /\ <<"actor", "a6">> \notin DOMAIN res.out

Served == res.op \in {"recommend", "popular", "trending"}
HybridAnswer == res.op = "recommend" /\ res.endpoint = "hybrid"
WeightsOff == RatAbs(RatSub(RatAdd(res.params[1], res.params[2]), RatOne))

(* C17: the hybrid endpoint calls generate_hybrid_recommendations only when *)
(* |collaborative_weight + content_weight - 1.0| <= 0.01; a request it      *)
(* accepted with weights further off is answered 400 with nothing computed; *)
(* and every recommendation endpoint serves a request only with limit in    *)
(* [1, 100] and min_similarity in [0, 1].                                    *)
C17_WeightsAndRanges ==
    /\ (HybridAnswer /\ res.status = 200) => RatLeq(WeightsOff, Rat(1, 100))
    /\ (HybridAnswer /\ RatLess(Rat(1, 100), WeightsOff)) =>
           /\ res.status = 400
           /\ DOMAIN res \cap {"recommendations", "body"} = {}
    /\ Served => res.limit >= 1 /\ res.limit <= 100
    /\ (res.op = "recommend" /\ res.endpoint \in {"collaborative", "content-based"}) =>
           RatLeq(RatZero, res.params[1]) /\ RatLeq(res.params[1], RatOne)
    /\ (res.op = "validation_error" /\ res.endpoint = "hybrid") =>
           DOMAIN res \cap {"recommendations", "body"} = {}

(* the hybrid endpoint refused weights 0.5 and 0.25 at the largest limit *)
C17_Witness ==
    /\ HybridAnswer
    /\ res.status = 400
    /\ res.limit = 100
    /\ res.params = <<Rat(1, 2), Rat(1, 4)>>

(* rec's recommendation_score divided by the largest of its list, 0 for an  *)
(* item the list does not hold                                              *)
ShareOfBest(recs, id) ==
    LET best == SurdMax([i \in DOMAIN recs |-> recs[i].recommendation_score], DOMAIN recs)
        hits == {i \in DOMAIN recs : recs[i].id = id}
    IN  IF hits = {} \/ best = SurdZero THEN SurdZero
        ELSE SurdDiv(recs[CHOOSE i \in hits : TRUE].recommendation_score, best)

HybridFormula(rec, in_both) ==
    LET weighted == SurdAdd(SurdScale(res.collaborative_weight, rec.collaborative_score),
                            SurdScale(res.content_weight, rec.content_score))
    IN  rec.recommendation_score =
            IF in_both THEN SurdScale(Rat(6, 5), weighted) ELSE weighted

SimilarityOf(u, o) ==
    pearson_correlation(get_user_ratings_dict(ratings, u).val,
                        get_user_ratings_dict(ratings, o).val)

(* the users other than u with three or more co-rated items and a positive  *)
(* correlation of at least min_similarity                                   *)
NeighboursOf(u, min_similarity) ==
    {o \in {ratings[i].user_id : i \in DOMAIN ratings} \ {u} :
        /\ Cardinality(RatedItems(u) \cap RatedItems(o)) >= 3
        /\ SurdSign(SimilarityOf(u, o)) > 0
        /\ SurdLeq(SurdOf(min_similarity), SimilarityOf(u, o))}

(* the neighbours who rated item id, and the rating each gave it *)
Contributing(u, min_similarity, id) ==
    {o \in NeighboursOf(u, min_similarity) : id \in RatedItems(o)}
RatingBy(o, id) == (CHOOSE p \in RatingsOf(o) : p[1] = id)[2]

SimilaritySum(u, N) == SurdSum([o \in N |-> SimilarityOf(u, o)], N)
WeightedSum(u, N, id) ==
    SurdSum([o \in N |-> SurdScale(RatInt(RatingBy(o, id)), SimilarityOf(u, o))], N)

(* C19: in generate_collaborative_recommendations the score of every        *)
(* candidate item i is the sum over the contributing neighbours n of        *)
(* similarity(n) * rating_n(i) divided by the number of contributing        *)
(* neighbours, the contributing neighbours being exactly the similar users  *)
(* with similarity >= min_similarity who rated i; the sum of similarities   *)
(* is not the divisor.                                                      *)
C19_ScoreIsMeanOverNeighbours ==
    res.op = "collaborative" =>
        \A i \in DOMAIN res.out :
            LET N == Contributing(res.user_id, res.min_similarity, res.out[i].id)
            IN  /\ N # {}
                /\ res.out[i].recommendation_score =
                       SurdScale(Rat(1, Cardinality(N)),
                                 WeightedSum(res.user_id, N, res.out[i].id))
                /\ SimilaritySum(res.user_id, N) # SurdOf(RatInt(Cardinality(N))) =>
                       res.out[i].recommendation_score #
                           SurdDiv(WeightedSum(res.user_id, N, res.out[i].id),
                                   SimilaritySum(res.user_id, N))

(* an item scored from two neighbours whose similarities do not add up to 2 *)
C19_Witness ==
    /\ res.op = "collaborative"
    /\ \E i \in DOMAIN res.out :
           LET N == Contributing(res.user_id, res.min_similarity, res.out[i].id)
           IN  /\ Cardinality(N) = 2
               /\ SimilaritySum(res.user_id, N) # SurdOf(RatInt(2))

(* C20: find_similar_users(u, min_common_items, top_n) returns only users   *)
(* other than u who share at least min_common_items co-rated items with u   *)
(* and whose Pearson correlation with u is strictly positive; each user at  *)
(* most once, in non-increasing correlation order, at most top_n entries.   *)
C20_SimilarUsersList ==
    res.op = "find_similar_users" =>
        /\ \A i \in DOMAIN res.out :
               /\ res.out[i][1] # res.user_id
               /\ Cardinality(RatedItems(res.user_id) \cap RatedItems(res.out[i][1]))
                      >= res.min_common_items
               /\ res.out[i][2] = SimilarityOf(res.user_id, res.out[i][1])
               /\ SurdSign(res.out[i][2]) > 0
        /\ \A i, j \in DOMAIN res.out :
               i < j => /\ res.out[i][1] # res.out[j][1]
                        /\ SurdLeq(res.out[j][2], res.out[i][2])
        /\ Len(res.out) <= res.top_n

(* two similar users of different correlation, the closer one first *)
C20_Witness ==
    /\ res.op = "find_similar_users"
    /\ Len(res.out) = 2
    /\ SurdLess(res.out[2][2], res.out[1][2])

(* the stored ratings of u with value >= min_rating whose item exists *)
CountedRatings(u, min_rating) ==
    {i \in DOMAIN ratings :
        /\ ratings[i].user_id = u
        /\ RatLeq(min_rating, RatInt(ratings[i].rating))
        /\ items_find_one(items, ObjectId(ratings[i].item_id)) # None}

(* the weight of key f before normalisation: the item's weight for f times  *)
(* rating/5, summed over the counted ratings                                *)
RawWeight(u, min_rating, f) ==
    LET S == CountedRatings(u, min_rating)
    IN  RatSum([i \in S |->
                   RatMul(FeatureGet(extract_item_features(
                                         items_find_one(items, ObjectId(ratings[i].item_id))),
                                     f),
                          Rat(ratings[i].rating, 5))], S)

(* C21: get_user_preferred_features(u, min_rating) returns the empty map or *)
(* a map whose weights all lie in (0, 1] with the largest exactly 1; before *)
(* the division by the largest, the weight of a key is the sum over u's     *)
(* ratings >= min_rating whose item exists of the item's weight for the key *)
(* times rating/5; ratings below min_rating contribute nothing.             *)
C21_ProfileNormalised ==
    res.op = "preferred_features" =>
        /\ \A f \in DOMAIN res.out :
               /\ RatSign(res.out[f]) > 0
               /\ RatLeq(res.out[f], RatOne)
               /\ \A g \in DOMAIN res.out :
                      RatMul(res.out[f], RawWeight(res.user_id, res.min_rating, g))
                          = RatMul(res.out[g], RawWeight(res.user_id, res.min_rating, f))
               /\ RatSign(RawWeight(res.user_id, res.min_rating, f)) > 0
        /\ DOMAIN res.out # {} => \E f \in DOMAIN res.out : res.out[f] = RatOne
        /\ \A f \in UNION {DOMAIN extract_item_features(Catalogue[k]) :
                               k \in DOMAIN Catalogue} :
               RatSign(RawWeight(res.user_id, res.min_rating, f)) > 0
                   => f \in DOMAIN res.out

(* a profile with a weight below 1, of a user who also has a rating below   *)
(* min_rating and a rating >= min_rating of an item that no longer exists   *)
C21_Witness ==
    /\ res.op = "preferred_features"
    /\ \E f \in DOMAIN res.out : res.out[f] # RatOne
    /\ \E i \in DOMAIN ratings :
           /\ ratings[i].user_id = res.user_id
           /\ RatLess(RatInt(ratings[i].rating), res.min_rating)
    /\ \E i \in DOMAIN ratings :
           /\ ratings[i].user_id = res.user_id
           /\ RatLeq(res.min_rating, RatInt(ratings[i].rating))
           /\ i \notin CountedRatings(res.user_id, res.min_rating)

(* the profile generate_content_based_recommendations builds for the user   *)
(* of the call, and the cosine similarity of a stored item to it            *)
ProfileOfCall == get_user_preferred_features(ratings, items, res.user_id, ContentMinRating)
SimilarityToProfile(item) ==
    cosine_similarity_features(ProfileOfCall, extract_item_features(item))

(* the stored items the user of the call has not rated *)
UnratedItems ==
    {Catalogue[k] : k \in {n \in Range(items) : Str(n) \notin RatedItems(res.user_id)}}

(* C22: every record of generate_content_based_recommendations(u, limit,    *)
(* min_similarity) has recommendation_score = the cosine similarity of u's  *)
(* profile and the item's feature vector, and that is >= min_similarity;    *)
(* the records are in non-increasing score order, at most limit, tagged     *)
(* content_based; no unrated item more similar than a returned one is left  *)
(* out.                                                                     *)
C22_ContentBasedList ==
    res.op = "content_based" =>
        /\ \A i \in DOMAIN res.out :
               /\ \E item \in UnratedItems :
                      /\ item._id = res.out[i]._id
                      /\ res.out[i].recommendation_score = SimilarityToProfile(item)
               /\ SurdLeq(SurdOf(res.min_similarity), res.out[i].recommendation_score)
               /\ res.out[i].recommendation_type = "content_based"
               /\ \A item \in UnratedItems :
                      item._id \notin {res.out[j]._id : j \in DOMAIN res.out}
                          => SurdLeq(SimilarityToProfile(item),
                                     res.out[i].recommendation_score)
        /\ \A i, j \in DOMAIN res.out :
               i < j => SurdLeq(res.out[j].recommendation_score,
                                res.out[i].recommendation_score)
        /\ Len(res.out) <= res.limit

(* two records of different score returned at limit 2 while a third unrated *)
(* item reaches min_similarity and is left out                              *)
C22_Witness ==
    /\ res.op = "content_based"
    /\ res.limit = 2
    /\ Len(res.out) = 2
    /\ res.out[1].recommendation_score # res.out[2].recommendation_score
    /\ \E item \in UnratedItems :
           /\ item._id \notin {res.out[j]._id : j \in DOMAIN res.out}
           /\ SurdLeq(SurdOf(res.min_similarity), SimilarityToProfile(item))
           /\ SurdSign(SimilarityToProfile(item)) > 0

(* C23: every record returned by get_popular_items has popularity_score =   *)
(* avg_rating * (1 + 0.1 * rating_count) computed over all of that item's   *)
(* ratings, satisfies every supplied item_type, category and genre filter,  *)
(* and the records are in non-increasing popularity_score order and number  *)
(* at most limit.  "Over all of that item's ratings": the ratings the       *)
(* pipeline joins to an item are the ratings stored for it.                 *)
PopularityOver(S) ==
    RatMul(avg_rating(ratings, S), RatAdd(RatOne, Rat(Cardinality(S), 10)))

NormSquared(features) ==
    RatSum([f \in DOMAIN features |-> RatMul(features[f], features[f])], DOMAIN features)
ConstantOn(r, K) == \A i, j \in K : r[i] = r[j]

(* C24: cosine_similarity_features and pearson_correlation never fail with  *)
(* a division by zero: cosine returns 0.0 when either vector has zero norm  *)
(* or both are empty, Pearson returns 0.0 when either user's ratings are    *)
(* constant over the common items.                                          *)
C24_NoDivisionByZero ==
    /\ res.op \in {"cosine_similarity_features", "pearson_correlation"} =>
           res.out # ZeroDivisionError
    /\ (/\ res.op = "cosine_similarity_features"
        /\ \/ NormSquared(res.features1) = RatZero
           \/ NormSquared(res.features2) = RatZero) => res.out = SurdZero
    /\ (/\ res.op = "pearson_correlation"
        /\ Cardinality(PearsonCommon) >= 2
        /\ \/ ConstantOn(res.ratings1, PearsonCommon)
           \/ ConstantOn(res.ratings2, PearsonCommon)) => res.out = SurdZero

(* a vector of zero norm that is not empty met a vector of positive norm *)
C24_Witness ==
    /\ res.op = "cosine_similarity_features"
    /\ DOMAIN res.features1 # {}
    /\ NormSquared(res.features1) = RatZero
    /\ NormSquared(res.features2) # RatZero
    /\ res.out = SurdZero

InUnit(x) == SurdLeq(SurdZero, x) /\ SurdLeq(x, SurdOf(RatOne))

(* rec is the first record of the non-empty list recs, whose score is       *)
(* positive                                                                 *)
TopOf(recs, rec) ==
    /\ recs # <<>>
    /\ SurdSign(recs[1].recommendation_score) > 0
    /\ recs[1].id = rec.id

(* C25: generate_hybrid_recommendations divides the scores of each source   *)
(* list by that list's own maximum, so in every returned record             *)
(* collaborative_score and content_score lie in [0, 1], the top item of a   *)
(* non-empty source list with positive maximum has component score exactly  *)
(* 1, and with non-negative weights summing to 1 every recommendation_score *)
(* lies in [0, 1.2].                                                        *)
C25_NormalisedComponents ==
    res.op = "hybrid" =>
        \A i \in DOMAIN res.out :
            /\ InUnit(res.out[i].collaborative_score)
            /\ InUnit(res.out[i].content_score)
            /\ TopOf(CollaborativeList, res.out[i]) =>
                   res.out[i].collaborative_score = SurdOf(RatOne)
            /\ TopOf(ContentList, res.out[i]) => res.out[i].content_score = SurdOf(RatOne)
            /\ (/\ RatSign(res.collaborative_weight) >= 0
                /\ RatSign(res.content_weight) >= 0
                /\ RatAdd(res.collaborative_weight, res.content_weight) = RatOne)
                   => /\ SurdLeq(SurdZero, res.out[i].recommendation_score)
                      /\ SurdLeq(res.out[i].recommendation_score, SurdOf(Rat(6, 5)))

(* the returned list holds the top item of the collaborative list, the top  *)
(* item of the content list and a record with a component strictly between  *)
(* 0 and 1                                                                  *)
C25_Witness ==
    /\ res.op = "hybrid"
    /\ res.collaborative_weight = DefaultCollaborativeWeight
    /\ \E i \in DOMAIN res.out : TopOf(CollaborativeList, res.out[i])
    /\ \E i \in DOMAIN res.out : TopOf(ContentList, res.out[i])
    /\ \E i \in DOMAIN res.out :
           \/ /\ SurdSign(res.out[i].collaborative_score) > 0
              /\ res.out[i].collaborative_score # SurdOf(RatOne)
           \/ /\ SurdSign(res.out[i].content_score) > 0
              /\ res.out[i].content_score # SurdOf(RatOne)

(* the stored item item_id names, if it is well-formed and names one *)
SourceExists == is_valid(res.item_id) /\ ObjectId(res.item_id)[2] \in Range(items)
SourceItem == Catalogue[ObjectId(res.item_id)[2]]
SimilarityToSource(item) ==
    cosine_similarity_features(extract_item_features(SourceItem),
                               extract_item_features(item))

(* C26: find_similar_items(item_id, limit, min_similarity) returns only     *)
(* items of the source item's item_type, never the source item, each with   *)
(* cosine similarity to the source >= min_similarity, in non-increasing     *)
(* similarity order and at most limit of them; it returns an empty list     *)
(* when item_id is malformed or names no existing item.                     *)
C26_SimilarItemsList ==
    res.op = "similar_items" =>
        IF ~ SourceExists THEN res.out = <<>>
        ELSE /\ \A i \in DOMAIN res.out :
                    /\ \E k \in Range(items) :
                           /\ Catalogue[k]._id = res.out[i]._id
                           /\ Catalogue[k].item_type = SourceItem.item_type
                           /\ res.out[i].similarity_score = SimilarityToSource(Catalogue[k])
                    /\ res.out[i]._id # SourceItem._id
                    /\ SurdLeq(SurdOf(res.min_similarity), res.out[i].similarity_score)
                    /\ res.out[i].recommendation_score = res.out[i].similarity_score
             /\ \A i, j \in DOMAIN res.out :
                    i < j => SurdLeq(res.out[j].similarity_score,
                                     res.out[i].similarity_score)
             /\ Len(res.out) <= res.limit

(* two items returned in strictly decreasing similarity while an item of    *)
(* the same type stays below min_similarity and an item of another type is  *)
(* stored                                                                   *)
C26_Witness ==
    /\ res.op = "similar_items"
    /\ SourceExists
    /\ Len(res.out) >= 2
    /\ res.out[1].similarity_score # res.out[2].similarity_score
    /\ \E k \in Range(items) :
           /\ Catalogue[k].item_type = SourceItem.item_type
           /\ k # ObjectId(res.item_id)[2]
           /\ SurdLess(SimilarityToSource(Catalogue[k]), SurdOf(res.min_similarity))
    /\ \E k \in Range(items) : Catalogue[k].item_type # SourceItem.item_type

(* the similar users of the finished call that pass line 136, and among     *)
(* them those whose later read (line 139) holds item id                     *)
UsedNeighbours ==
    {j \in DOMAIN res.similar_users :
        SurdLeq(SurdOf(res.min_similarity), res.similar_users[j][2])}
LaterRead(j) == res.neighbour_ratings[res.similar_users[j][1]].val
EarlierRead(j) == res.all_users_ratings.val[res.similar_users[j][1]].val
LaterHolders(id) == {j \in UsedNeighbours : id \in DOMAIN LaterRead(j)}

(* a rating the neighbour at position j held at the earlier read and no     *)
(* longer at the later one                                                  *)
DeletedBetween(j) == (DOMAIN EarlierRead(j)) \ (DOMAIN LaterRead(j))

(* what a step of the call in flight adds to its later reads is the        *)
(* neighbour's dict in the store as it is at that step                      *)
LaterReadIsOfTheStore ==
    (reqs[Caller] # Idle /\ reqs'[Caller] # Idle) =>
        \A n \in (DOMAIN reqs'[Caller].neighbour_ratings)
                     \ (DOMAIN reqs[Caller].neighbour_ratings) :
            reqs'[Caller].neighbour_ratings[n] = get_user_ratings_dict(ratings, n)

(* the finished call's similarities are of the earlier read, its scores of  *)
(* the later reads                                                          *)
ScoresFromBothReads ==
    res.op = "collaborative_call" =>
        /\ \A j \in DOMAIN res.similar_users :
               res.similar_users[j][2] =
                   pearson_correlation(res.user_ratings.val, EarlierRead(j))
        /\ \A j \in UsedNeighbours :
               res.similar_users[j][1] \in DOMAIN res.neighbour_ratings
        /\ \A i \in DOMAIN res.out :
               LET N == LaterHolders(res.out[i].id)
               IN  /\ N # {}
                   /\ res.out[i].recommendation_score =
                          SurdScale(Rat(1, Cardinality(N)),
                                    SurdSum([j \in N |->
                                                SurdScale(RatInt(LaterRead(j)[res.out[i].id]),
                                                          res.similar_users[j][2])], N))

(* C27: within one generate_collaborative_recommendations call a            *)
(* neighbour's ratings are read once for the similarity step and again for  *)
(* the accumulation step, with no common snapshot: every similar user       *)
(* carries the Pearson correlation of the earlier read, every used          *)
(* neighbour is read again, the score of every returned record is the mean  *)
(* over the neighbours holding the item at the later read of that earlier   *)
(* similarity times the later rating, so a rating deleted between the two   *)
(* reads contributes to no score while its owner is still used.  The call   *)
(* finishes with a list in every interleaving: Complete is its only exit.   *)
C27_NoCommonSnapshot == [](ScoresFromBothReads) /\ [][LaterReadIsOfTheStore]_vars

(* a finished call in which a used neighbour lost, between the two reads,   *)
(* its rating of an item the caller has not rated, another neighbour's      *)
(* rating still puts that item in the result, and the first neighbour       *)
(* contributes to another returned record                                   *)
C27_Witness ==
    /\ res.op = "collaborative_call"
    /\ \E j \in UsedNeighbours : \E id \in DeletedBetween(j) :
           /\ id \notin res.user_rated_items
           /\ \E i \in DOMAIN res.out : res.out[i].id = id
           /\ \E i \in DOMAIN res.out : j \in LaterHolders(res.out[i].id)

(* every scored candidate of the finished call, best score first: what      *)
(* line 156 leaves in recommendations                                       *)
ScoredCandidates ==
    LET similar_users == find_similar_users(ratings, res.user_id, CollabMinCommon, CollabTopN)
    IN  IF similar_users = <<>> THEN <<>>
        ELSE collaborative_scores(RatedItems(res.user_id), similar_users,
                                  [n \in {similar_users[j][1] : j \in DOMAIN similar_users} |->
                                      get_user_ratings_dict(ratings, n)],
                                  res.min_similarity)
ItemExists(item_id) == \E i \in DOMAIN items : Str(items[i]) = item_id

(* the positions among the first limit candidates whose item is stored *)
TopExisting(scored, limit) ==
    {p \in DOMAIN scored : p <= limit /\ ItemExists(scored[p].item_id)}

(* C28: generate_collaborative_recommendations returns exactly those of the *)
(* top-limit scored candidates whose item still exists in the items         *)
(* collection, in non-increasing score order; a candidate ranked beyond     *)
(* position limit is never returned, even when a top-limit candidate is     *)
(* dropped because its item was deleted.                                    *)
C28_TopLimitThenLookup ==
    res.op = "collaborative" =>
        LET scored == ScoredCandidates
            kept == TopExisting(scored, res.limit)
        IN  /\ Len(res.out) = Cardinality(kept)
            /\ \A i \in DOMAIN res.out :
                   \E p \in kept :
                       /\ Cardinality({q \in kept : q < p}) = i - 1
                       /\ res.out[i].id = scored[p].item_id
                       /\ res.out[i].recommendation_score = scored[p].score
            /\ \A i, j \in DOMAIN res.out :
                   i < j => SurdLeq(res.out[j].recommendation_score,
                                    res.out[i].recommendation_score)
            /\ \A p \in DOMAIN scored :
                   p > res.limit => \A i \in DOMAIN res.out : res.out[i].id # scored[p].item_id

(* a call whose result is not empty and holds fewer than limit records      *)
(* because a top-limit candidate's item was deleted, while a candidate      *)
(* beyond position limit has a stored item                                  *)
C28_Witness ==
    /\ res.op = "collaborative"
    /\ res.out # <<>>
    /\ Len(res.out) < res.limit
    /\ \E p, q \in DOMAIN ScoredCandidates :
           /\ p <= res.limit
           /\ ~ ItemExists(ScoredCandidates[p].item_id)
           /\ q > res.limit
           /\ ItemExists(ScoredCandidates[q].item_id)

(* the ids of the items get_trending_items finds over rs for a window of    *)
(* days days                                                                *)
TrendingIds(rs, days) ==
    OutIds(get_trending_items(rs, items, now, "", days, DefaultLimit))

(* a POST /ratings that found a rating of the pair and updated it *)
ReRated == res'.op = "create_rating" /\ res'.status = 201 /\ res'.updated

ReRatingFrame ==
    ReRated =>
        /\ Len(ratings') = Len(ratings)
        /\ \E i \in DOMAIN ratings :
               ratings[i].user_id = res'.user_id /\ ratings[i].item_id = res'.item_id
        /\ \A i \in DOMAIN ratings :
               IF ratings[i].user_id = res'.user_id /\ ratings[i].item_id = res'.item_id
               THEN /\ ratings'[i].rating = res'.rating
                    /\ ratings'[i].updated_at = now
                    /\ ratings'[i].created_at = ratings[i].created_at
                    /\ ratings'[i].user_id = ratings[i].user_id
                    /\ ratings'[i].item_id = ratings[i].item_id
                    /\ ratings'[i]._id = ratings[i]._id
               ELSE ratings'[i] = ratings[i]
        /\ \A days \in 0 .. MaxDays : TrendingIds(ratings', days) = TrendingIds(ratings, days)

(* C29: when create_rating is called for a (user, item) pair that already   *)
(* has a rating, only the rating value and updated_at of the existing       *)
(* rating change: its created_at, user_id, item_id and identifier, every    *)
(* other rating and the number of stored ratings are unchanged, so the      *)
(* items get_trending_items finds are the same before and after.            *)
C29_ReRatingKeepsCreatedAt == [][ReRatingFrame]_vars

(* a rating created more than MaxDays days ago has just been re-rated: its  *)
(* updated_at is now, its created_at is before the trending window, and its *)
(* item is not trending                                                     *)
C29_Witness ==
    /\ res.op = "create_rating"
    /\ res.status = 201
    /\ res.updated
    /\ \E i \in DOMAIN ratings :
           /\ ratings[i].user_id = res.user_id
           /\ ratings[i].item_id = res.item_id
           /\ ratings[i].rating = res.rating
           /\ ratings[i].updated_at = now
           /\ ratings[i].created_at < now - MaxDays
           /\ ratings[i].item_id \notin TrendingIds(ratings, MaxDays)

PersonalEndpoints == {"personalized", "hybrid", "collaborative", "content-based"}

(* the request just answered went to one of the four endpoints with no      *)
(* credentials or with a token that resolved to no stored user              *)
AnonymousRequest ==
    /\ res'.op \in {"recommend", "validation_error"}
    /\ res'.endpoint \in PersonalEndpoints
    /\ \/ res'.credentials = NoCredentials
       \/ get_current_user_from_token(users, res'.credentials) = "None"

(* the answer is 200 with the fallback computed for the new user a *)
FallbackFor(a) ==
    /\ res'.status = 200
    /\ res'.user_id = a
    /\ res'.recommendations = <<>>
    /\ res'.body = get_popular_items(ratings, items, "", "", "", res'.limit, 1)

(* C30 as stated: every request to the personalized, hybrid, collaborative  *)
(* or content-based endpoint without resolvable credentials inserts exactly *)
(* one new anonymous user, computes recommendations for that user, gets an  *)
(* empty recommender result and answers with the popularity fallback.       *)
C30_AlwaysFallback ==
    [][AnonymousRequest =>
           \E a \in AnonIds \ users : users' = users \cup {a} /\ FallbackFor(a)]_vars

AnonymousAnswer ==
    AnonymousRequest =>
        \E a \in AnonIds \ users :
            /\ users' = users \cup {a}
            /\ RatedItems(a) = {}
            /\ res'.status \in {200, 400, 422}
            /\ res'.status = 422 <=> ~ query_accepted(res'.limit, res'.params)
            /\ res'.status = 400 =>
                   /\ res'.endpoint = "hybrid"
                   /\ RatLeq(Rat(1, 100), weights_off(res'.params[1], res'.params[2]))
            /\ (res'.status = 200 /\ res'.endpoint = "hybrid") =>
                   RatLeq(weights_off(res'.params[1], res'.params[2]), Rat(1, 100))
            /\ res'.status = 200 => FallbackFor(a)

(* C30, amended: every such request inserts exactly one new anonymous user; *)
(* a query parameter outside its range is answered 422 and, on the hybrid   *)
(* endpoint, weights whose sum is off from 1 by more than 0.01 are answered *)
(* 400, without recommendations; every other such request computes the     *)
(* recommendations for the new user, who has no ratings, gets an empty      *)
(* result and answers with what get_popular_items(limit, min_ratings=1)     *)
(* returns.                                                                 *)
C30_AnonymousFallback == [][AnonymousAnswer]_vars

(* a request with an unknown token answered 200 for a second anonymous      *)
(* user while the first anonymous user is stored with a rating: the         *)
(* recommender result is empty and the body is the fallback's               *)
C30_Witness ==
    /\ res.op = "recommend"
    /\ res.status = 200
    /\ res.endpoint \in PersonalEndpoints
    /\ res.credentials = BadToken
    /\ res.user_id = "anon2"
    /\ {"anon1", "anon2"} \subseteq users
    /\ RatedItems("anon1") # {}
    /\ RatedItems("anon2") = {}
    /\ res.recommendations = <<>>
    /\ res.body = get_popular_items(ratings, items, "", "", "", res.limit, 1)

====
